---- MODULE Spec2Model ----
(***************************************************************************)
(* The planner-driven CLI of nanobrowser (src/cli/planner-run.ts): the     *)
(* navigation loop of runPlannerAndNavigator, the patched                  *)
(* NavigatorAgent.invoke (structured-output fallback) and the patched      *)
(* NavigatorAgent.doMultiAction (sequential execution of one batch).       *)
(*                                                                         *)
(* One task is modelled from the point where the Navigator has been        *)
(* constructed (line 395).  NavigatorAgent.execute itself is not part of   *)
(* the sources at hand; only its two patched methods and its caller are.   *)
(* Its glue (invoke, then doMultiAction, then an output) is modelled from  *)
(* the specification and is kept in ResponseArrives, ExecuteReturnsResult  *)
(* and ExecuteFails.  Batches are well-formed lists of single-key actions; *)
(* an action is reduced to whether its name is registered and to what its  *)
(* executor does.                                                          *)
(***************************************************************************)
EXTENDS Integers, Sequences, FiniteSets, TLC

\* ---------------------------------------------------------------- bounds
MaxStepsBound == 3
MaxFailuresBound == 3
MaxActions == 4
MaxNavCalls == 5
LoopBatch == 1
MaxPayloadLen == 2
SnapshotBatch == 2
MaxIndex == 2
MaxPagesMade == 3
LaunchPages == 2
MaxNodes == 3
MaxSnapshots == 2
MaxArgs == 3
MaxCmds == 3
MaxRawNodes == 2
MaxRawChildren == 2
MaxLines == 2
MaxPixels == 2
MaxRuns == 2
MaxTextLen == 2

\* ------------------------------------------------------------- constants
\* doMultiAction gives up when errCount exceeds this (line 361).
ErrLimit == 3

\* The substrings the two schemaFailure tests look for in an error message.
\* An error message is modelled by the set of these markers it contains.
JsonSchemaMarker == "JSON schema conversion failed"
StructuredMarker == "structured output"
ToolCallingMarker == "tool calling"
Msgs == {{}, {JsonSchemaMarker}, {StructuredMarker}, {ToolCallingMarker}}

\* 'Too many errors in actions' (line 361) contains none of the markers.
TooManyErrorsMsg == {}

\* opts.structuredOutput: undefined unless --no-structured or the YAML sets it.
StructuredOutputValues == {"undefined", "true", "false"}

VARIABLES
  pc,                   \* position of the task's single control flow
  maxSteps,             \* agentContext.options.maxSteps
  maxFailures,          \* agentContext.options.maxFailures
  structuredOutput,     \* the structuredOutput parameter
  batchBound,           \* largest batch the model service emits in this run
  stepCount,            \* let stepCount (line 412)
  done,                 \* let done (line 410)
  consecutiveFailures,  \* let consecutiveFailures (line 411)
  plannerWSO,           \* planner.withStructuredOutput
  navigatorWSO,         \* navigator.withStructuredOutput
  paused,               \* context.paused
  stopped,              \* context.stopped
  nActions,             \* actions.length in doMultiAction
  ai,                   \* 1-based position of the for loop over actions
  results,              \* const results (line 318)
  errCount,             \* let errCount (line 319)
  running,              \* positions of the executors that are in flight
  err,                  \* the message of the error in flight inside execute
  out,                  \* what navigator.execute() gave the loop
  \* history variables, read by the properties only
  navCalls,             \* number of navigator.execute() calls so far
  fallbacks,            \* number of fallback branches taken so far
  strictAfterFallback,  \* a strict-schema attempt was made after a fallback
  incThisStep,          \* increments of consecutiveFailures in this step
  batchAborted,         \* doMultiAction threw 'Too many errors' in this step
  reportedDone,         \* navigator.execute() returned done = true
  started,              \* positions whose executor was started, in order
  failed,               \* positions whose action failed in this batch
  flagAtStart,          \* an executor was started while paused or stopped
  everFailed,           \* a step of this task did not succeed
  lastBatch,            \* <<actions, errors>> of the batch of this step
  \* the planning phase and main
  plannerOnly,          \* the plannerOnly parameter
  planOut,              \* what planner.execute() gave (line 271)
  plannerCalls,         \* number of planner.execute() calls so far
  event,                \* the last event main emitted for the task
  \* the page under the batch
  pageDynamic,          \* the page reacts to actions by changing its elements
  pageChanged,          \* an action of this batch has changed the page
  staleExec,            \* an index of the old snapshot met the changed page
  \* the payload of doMultiAction
  payload,              \* response.action
  normOut,              \* what lines 318-342 make of it
  \* the CLI browser adapter
  dom,                  \* index -> element of the page as it is now
  ctxState,             \* selector map of the last CliBrowserContext.getState()
  inst,                 \* state.selectorMap of the CliPage last handed out
  opResult,             \* outcome of the last dropdown operation
  \* the tabs of CliBrowserContext
  pages,                \* this.pages, as the identities of the pages
  currentIdx,           \* this.currentIdx
  pagesMade,            \* number of pages the browser has made so far
  firstId,              \* page -> the tab id first reported for it, 0 if none
  tabOut,               \* the last adapter call about tabs and what it gave
  \* the DOM snapshot of a page
  evalPage,             \* what buildDomTree gives on the current document
  domOut,               \* what the last getState call got from the DOM service
  stateSerial,          \* number of assignments to this.state (line 71)
  hasProbe,             \* window.buildDomTree is a function
  onNewDoc,             \* the script is registered with evaluateOnNewDocument
  csp,                  \* the document refuses the immediate injection
  \* the command line and main
  argv,                 \* process.argv.slice(2)
  parsed,               \* what parseArgs returned
  commands,             \* where main took its commands from
  mainPc,               \* the position of main after the context is made
  nCmds,                \* commands.length
  taskLog,              \* how each task run so far has ended
  inFlight,             \* the commands whose run has started and not ended
  runAt,                \* where the run in progress is: planning or navigating
  cliPatched,           \* NavigatorAgent.__cliPatched
  cliInvokePatched,     \* NavigatorAgent.__cliInvokePatched
  multiWraps,           \* wrappers put around prototype.doMultiAction so far
  invokeWraps,          \* wrappers put around prototype.invoke so far
  patchChecks,          \* runs that have come to the patching code so far
  mainLog,              \* the prompt, the answer, cleanup and exit, in order
  exitCode,             \* the code given to process.exit, -1 before
  \* the state message of the prompts
  msgIn,                \* the browser state buildBrowserStateUserMessage reads
  msgOut,               \* formattedElementsText, as its lines
  \* the connection test of the options page
  testing,              \* the testing state of TaskBridgeSettings
  testResult,           \* the testResult state of TaskBridgeSettings
  conn,                 \* run -> the closure of that testConnection call
  nRuns                 \* number of testConnection calls so far

loopVars == <<maxSteps, maxFailures, structuredOutput, batchBound, stepCount,
              done, consecutiveFailures>>
agentVars == <<plannerWSO, navigatorWSO>>
flagVars == <<paused, stopped>>
batchVars == <<nActions, ai, results, errCount, running>>
histVars == <<navCalls, fallbacks, strictAfterFallback, incThisStep, batchAborted,
              reportedDone, started, failed, flagAtStart>>
stepVars == <<everFailed, lastBatch>>
planVars == <<plannerOnly, planOut, plannerCalls, event>>
snapVars == <<pageDynamic, pageChanged, staleExec>>
payloadVars == <<payload, normOut>>
pageVars == <<dom, ctxState, inst, opResult>>
tabVars == <<pages, currentIdx, pagesMade, firstId, tabOut>>
domVars == <<evalPage, domOut, stateSerial, hasProbe, onNewDoc, csp>>
argVars == <<argv, parsed, commands>>
patchVars == <<runAt, cliPatched, cliInvokePatched, multiWraps, invokeWraps,
               patchChecks>>
mainVars == <<mainPc, nCmds, taskLog, inFlight, mainLog, exitCode, patchVars>>
cliVars == <<argVars, mainVars>>
msgVars == <<msgIn, msgOut>>
connVars == <<testing, testResult, conn, nRuns>>
uiVars == <<msgVars, connVars>>
extraVars == <<tabVars, domVars, cliVars, uiVars>>
otherVars == <<payloadVars, pageVars, extraVars>>
vars == <<pc, loopVars, agentVars, flagVars, batchVars, err, out, histVars,
          stepVars, planVars, snapVars, otherVars>>

NoOut == [kind |-> "none", done |-> FALSE, msg |-> {}]

\* ------------------------------------------------------------ predicates
\* schemaFailure of the patched invoke (line 379)
SchemaFailureInvoke(msg) ==
  JsonSchemaMarker \in msg \/ StructuredMarker \in msg

\* schemaFailure of the loop's catch (lines 445-446)
SchemaFailureLoop(msg) ==
  JsonSchemaMarker \in msg \/ ToolCallingMarker \in msg

\* a variant that tests the stopped flag only
FlagSetStoppedOnly == stopped

\* this.context.paused || this.context.stopped (lines 348, 354)
FlagSet == paused \/ stopped

\* a variant with an off-by-one step budget
WhileCondOffByOne ==
  stepCount <= maxSteps /\ ~done /\ consecutiveFailures < maxFailures

\* the while condition (line 415)
WhileCond ==
  stepCount < maxSteps /\ ~done /\ consecutiveFailures < maxFailures

\* a variant that does not keep the error in history
ErrorResultNotKept(i, cause) ==
  [act |-> i, kind |-> "error", cause |-> cause, includeInMemory |-> FALSE]

\* new ActionResult({ error, includeInMemory: true }) (lines 358-360)
ErrorResult(i, cause) ==
  [act |-> i, kind |-> "error", cause |-> cause, includeInMemory |-> TRUE]

\* what an executor returned, reduced to its done flag
ExecResult(i, isDone) ==
  [act |-> i, kind |-> IF isDone THEN "done" ELSE "ok", cause |-> "none",
   includeInMemory |-> FALSE]

\* a variant that puts the newest result first
PushFront(rs, r) == <<r>> \o rs

\* results.push(res)
Push(rs, r) == Append(rs, r)

\* -------------------------------------------------------------- the task
\* The locals and the agents of a task that has not run a step yet, for
\* options ms and mf, option value so and batches of at most bb actions.  The
\* constructors give both agents the same flag, as both are built on the same
\* chat model.
Fresh(ms, mf, so, bb) ==
  /\ maxSteps = ms
  /\ maxFailures = mf
  /\ structuredOutput = so
  /\ batchBound = bb
  /\ stepCount = 0
  /\ done = FALSE
  /\ consecutiveFailures = 0
  /\ \E ctor \in BOOLEAN : plannerWSO = ctor /\ navigatorWSO = ctor
  /\ paused = FALSE
  /\ stopped = FALSE
  /\ nActions = 0
  /\ ai = 1
  /\ results = <<>>
  /\ errCount = 0
  /\ running = {}
  /\ err = {}
  /\ out = NoOut
  /\ navCalls = 0
  /\ fallbacks = 0
  /\ strictAfterFallback = FALSE
  /\ incThisStep = 0
  /\ batchAborted = FALSE
  /\ reportedDone = FALSE
  /\ started = <<>>
  /\ failed = {}
  /\ flagAtStart = FALSE
  /\ everFailed = FALSE
  /\ lastBatch = <<0, 0>>
  /\ pageChanged = FALSE
  /\ staleExec = FALSE

\* no event yet
NoEvent ==
  [type |-> "none", status |-> "none", plan |-> FALSE, done |-> FALSE,
   error |-> FALSE]

\* planner.execute() has returned a plan and plannerOnly is off (line 295)
Planned ==
  /\ plannerOnly = FALSE
  /\ planOut = [kind |-> "result", msg |-> {}]
  /\ plannerCalls = 1
  /\ event = NoEvent

\* lines 318-342 have not run
NoNorm == [kind |-> "none", actions |-> <<>>, msg |-> ""]

\* no payload is being normalised
PayloadIdle ==
  /\ payload = [shape |-> "missing", items |-> <<>>]
  /\ normOut = NoNorm

\* the identities of the pages a browser can make
PageIds == 1..MaxPagesMade

\* the browser is not launched (lines 213-215)
\* what a call about tabs gave: whether it threw, the page the returned
\* CliPage wraps (0: none or undefined), the tab id of the returned state
\* (0: none) and the tab ids listed
TabOut(op, arg, threw, page, tabId, tabs) ==
  [op |-> op, arg |-> arg, threw |-> threw, page |-> page, tabId |-> tabId,
   tabs |-> tabs]

NoTabOut == TabOut("none", 0, FALSE, 0, 0, <<>>)

TabsIdle ==
  /\ pages = <<>>
  /\ currentIdx = 0
  /\ pagesMade = 0
  /\ firstId = [p \in PageIds |-> 0]
  /\ tabOut = NoTabOut

\* no flat node map: zero nodes
NoEvalPage ==
  [n |-> 0, kind |-> <<>>, children |-> <<>>, hi |-> <<>>, rootId |-> 0]

\* no getState call has come back
NoDomOut ==
  [kind |-> "none", msg |-> "", blocked |-> FALSE, root |-> 0 - 1,
   children |-> <<>>, parent |-> <<>>, selectorMap |-> {}]

\* no page is being read
DomIdle ==
  /\ evalPage = NoEvalPage
  /\ domOut = NoDomOut
  /\ stateSerial = 0
  /\ hasProbe = FALSE
  /\ onNewDoc = FALSE
  /\ csp = FALSE

\* parseArgs has not run
NoParsed == [done |-> FALSE, file |-> "", structuredOutput |-> "undefined", rest |-> <<>>]

\* main has not looked for its commands
NoCommands == [kind |-> "none", file |-> "", inline |-> <<>>]

ArgsIdle ==
  /\ argv = <<>>
  /\ parsed = NoParsed
  /\ commands = NoCommands

\* the NavigatorAgent class as the module is loaded
Unpatched ==
  /\ runAt = "none"
  /\ cliPatched = FALSE
  /\ cliInvokePatched = FALSE
  /\ multiWraps = 0
  /\ invokeWraps = 0
  /\ patchChecks = 0

MainIdle ==
  /\ mainPc = "idle"
  /\ nCmds = 0
  /\ taskLog = <<>>
  /\ inFlight = {}
  /\ Unpatched
  /\ mainLog = <<>>
  /\ exitCode = 0 - 1

\* a pixel count of the browser state: a number, or undefined
Px(d, v) == [def |-> d, val |-> v]

\* no browser state read, no message made
NoMsgIn == [elements |-> <<>>, pixelsAbove |-> Px(FALSE, 0), pixelsBelow |-> Px(FALSE, 0)]

MsgIdle ==
  /\ msgIn = NoMsgIn
  /\ msgOut = <<>>

\* the options page as it is mounted (lines 11-12), no test made
ConnIdle ==
  /\ testing = FALSE
  /\ testResult = "null"
  /\ conn = <<>>
  /\ nRuns = 0

UiIdle ==
  /\ MsgIdle
  /\ ConnIdle

CliIdle ==
  /\ ArgsIdle
  /\ MainIdle

\* the parts of the program that are at rest while another part is checked
ExtrasIdle ==
  /\ TabsIdle
  /\ DomIdle
  /\ CliIdle
  /\ UiIdle

\* highlight indices and the elements of a page
Indices == 1..MaxIndex

Elems == {"e1", "e2"}

\* new Map() (line 16): no index has an element
EmptyMap == [i \in Indices |-> "none"]

\* no dropdown operation yet
NoOp ==
  [kind |-> "none", op |-> "none", index |-> 0, elem |-> "none",
   taken |-> FALSE, snap |-> EmptyMap]

\* the adapter has no page in use
PageIdle ==
  /\ dom = EmptyMap
  /\ ctxState = [taken |-> FALSE, map |-> EmptyMap]
  /\ inst = [made |-> FALSE, map |-> EmptyMap]
  /\ opResult = NoOp
  /\ ExtrasIdle

\* The state once both agents are constructed (line 399), on a page that
\* the actions leave as it is.
TaskStart(ms, mf, so, bb) ==
  /\ pc = "setup"
  /\ Fresh(ms, mf, so, bb)
  /\ Planned
  /\ pageDynamic = FALSE
  /\ PayloadIdle
  /\ PageIdle

\* any budgets, short batches: the orchestration loop
Init ==
  \E ms \in 1..MaxStepsBound, mf \in 1..MaxFailuresBound,
     so \in StructuredOutputValues :
    TaskStart(ms, mf, so, LoopBatch)

\* one step, long batches: doMultiAction
InitBatch ==
  \E so \in StructuredOutputValues : TaskStart(1, 1, so, MaxActions)

\* maxFailures = 3, long batches: a failing batch inside the loop
InitStep ==
  \E so \in StructuredOutputValues : TaskStart(MaxStepsBound, 3, so, MaxActions)

\* if (structuredOutput === false) { planner... = false; navigator... = false }
ApplyStructuredOption ==
  IF structuredOutput = "false"
  THEN plannerWSO' = FALSE /\ navigatorWSO' = FALSE
  ELSE UNCHANGED agentVars

\* lines 400-412: the option is applied and the loop's counters are set
Setup ==
  /\ pc = "setup"
  /\ ApplyStructuredOption
  /\ stepCount' = 0
  /\ done' = FALSE
  /\ consecutiveFailures' = 0
  /\ pc' = "while"
  /\ UNCHANGED <<maxSteps, maxFailures, structuredOutput, batchBound,
                 flagVars, batchVars, err, out, histVars>>
  /\ UNCHANGED <<stepVars, planVars, snapVars, otherVars>>

\* a variant that asks the planner again before every step
StepBeginReplans ==
  /\ pc = "while"
  /\ WhileCond
  /\ navCalls < MaxNavCalls
  /\ pc' = "execute"
  /\ navCalls' = navCalls + 1
  /\ plannerCalls' = plannerCalls + 1
  /\ incThisStep' = 0
  /\ batchAborted' = FALSE
  /\ lastBatch' = <<0, 0>>
  /\ UNCHANGED <<loopVars, agentVars, flagVars, batchVars, err, out, fallbacks,
                 strictAfterFallback, reportedDone, started, failed, flagAtStart,
                 everFailed, plannerOnly, planOut, event, snapVars, otherVars>>

\* line 415 holds and line 421 calls navigator.execute()
StepBegin ==
  /\ pc = "while"
  /\ WhileCond
  /\ navCalls < MaxNavCalls
  /\ pc' = "execute"
  /\ navCalls' = navCalls + 1
  /\ incThisStep' = 0
  /\ batchAborted' = FALSE
  /\ lastBatch' = <<0, 0>>
  /\ UNCHANGED <<loopVars, agentVars, flagVars, batchVars, err, out, fallbacks,
                 strictAfterFallback, reportedDone, started, failed, flagAtStart>>
  /\ UNCHANGED <<everFailed, planVars, snapVars, otherVars>>

\* line 415 fails: lines 470-477 return { plan, done }
LoopExit ==
  /\ pc = "while"
  /\ ~WhileCond
  /\ pc' = "returned"
  /\ UNCHANGED <<loopVars, agentVars, flagVars, batchVars, err, out, histVars>>
  /\ UNCHANGED <<stepVars, planVars, snapVars, otherVars>>

\* ------------------------------------------------------ the patched invoke
\* lines 373-376 and 389: strict attempt while the flag is set, else extraction
InvokeCall ==
  /\ pc = "execute"
  /\ IF navigatorWSO
     THEN /\ pc' = "invoke_strict"
          /\ strictAfterFallback' = (strictAfterFallback \/ fallbacks > 0)
     ELSE /\ pc' = "invoke_extract"
          /\ UNCHANGED strictAfterFallback
  /\ UNCHANGED <<loopVars, agentVars, flagVars, batchVars, err, out, navCalls,
                 fallbacks, incThisStep, batchAborted, reportedDone, started, failed,
                 flagAtStart>>
  /\ UNCHANGED <<stepVars, planVars, snapVars, otherVars>>

\* the response reaches execute, which hands it to doMultiAction
ResponseArrives(n) ==
  /\ nActions' = n
  /\ pc' = "multi_enter"
  /\ UNCHANGED <<loopVars, agentVars, flagVars, ai, results, errCount, running,
                 err, out, histVars>>
  /\ UNCHANGED <<stepVars, planVars, snapVars, otherVars>>

\* an error leaves invoke and reaches execute
InvokeThrows(msg) ==
  /\ err' = msg
  /\ pc' = "execute_catch"
  /\ UNCHANGED <<loopVars, agentVars, flagVars, batchVars, out, histVars>>
  /\ UNCHANGED <<stepVars, planVars, snapVars, otherVars>>

\* lines 380-383: this.withStructuredOutput = false, then BaseAgent's invoke
InvokeFallback ==
  /\ navigatorWSO' = FALSE
  /\ fallbacks' = fallbacks + 1
  /\ pc' = "invoke_extract"
  /\ UNCHANGED <<loopVars, plannerWSO, flagVars, batchVars, err, out, navCalls,
                 strictAfterFallback, incThisStep, batchAborted, reportedDone, started, failed,
                 flagAtStart>>
  /\ UNCHANGED <<stepVars, planVars, snapVars, otherVars>>

\* lines 376-386: originalInvoke returns or throws
InvokeStrictReturn ==
  /\ pc = "invoke_strict"
  /\ \/ \E n \in 0..batchBound : ResponseArrives(n)
     \/ \E msg \in Msgs :
          IF SchemaFailureInvoke(msg) THEN InvokeFallback ELSE InvokeThrows(msg)

\* lines 383 and 389: BaseAgent.prototype.invoke returns or throws
InvokeExtractReturn ==
  /\ pc = "invoke_extract"
  /\ \/ \E n \in 0..batchBound : ResponseArrives(n)
     \/ \E msg \in Msgs : InvokeThrows(msg)

\* ------------------------------------------------ the patched doMultiAction
\* lines 318-331 for a well-formed payload: nActions single-key actions
DoMultiActionEnter ==
  /\ pc = "multi_enter"
  /\ results' = <<>>
  /\ errCount' = 0
  /\ ai' = 1
  /\ running' = {}
  /\ started' = <<>>
  /\ failed' = {}
  /\ pageChanged' = FALSE
  /\ staleExec' = FALSE
  /\ pc' = "multi_for"
  /\ UNCHANGED <<loopVars, agentVars, flagVars, nActions, err, out, navCalls,
                 fallbacks, strictAfterFallback, incThisStep, batchAborted,
                 reportedDone, flagAtStart>>
  /\ UNCHANGED <<stepVars, planVars, pageDynamic, otherVars>>

\* return results (lines 348, 354, 364): back in execute
ReturnResults ==
  /\ pc' = "execute_results"
  /\ UNCHANGED <<err, batchAborted>>

\* a variant that gives up the batch at the first error
MultiCatchAbortsAtOnce(i, cause) ==
  /\ errCount' = errCount + 1
  /\ results' = Push(results, ErrorResult(i, cause))
  /\ err' = TooManyErrorsMsg
  /\ batchAborted' = TRUE
  /\ pc' = "execute_catch"
  /\ UNCHANGED ai

\* the catch block, lines 356-362, for the action at position i
MultiCatch(i, cause) ==
  /\ errCount' = errCount + 1
  /\ results' = Push(results, ErrorResult(i, cause))
  /\ IF errCount + 1 > ErrLimit
     THEN /\ err' = TooManyErrorsMsg
          /\ batchAborted' = TRUE
          /\ pc' = "execute_catch"
          /\ UNCHANGED ai
     ELSE /\ ai' = ai + 1
          /\ pc' = "multi_for"
          /\ UNCHANGED <<err, batchAborted>>

\* lines 344-351: the flags are tested, the name is resolved and the executor
\* is started, with no suspension point in between
MultiActionStart ==
  /\ pc = "multi_for"
  /\ ai <= nActions
  /\ IF FlagSet
     THEN /\ ReturnResults
          /\ UNCHANGED <<batchVars, started, failed, flagAtStart, staleExec>>
     ELSE \E registered \in BOOLEAN :
            IF registered
            THEN /\ running' = running \cup {ai}
                 /\ \E indexed \in BOOLEAN :
                      staleExec' = (staleExec \/ (indexed /\ pageChanged))
                 /\ started' = Append(started, ai)
                 /\ flagAtStart' = (flagAtStart \/ paused \/ stopped)
                 /\ pc' = "multi_call"
                 /\ UNCHANGED <<nActions, ai, results, errCount, err,
                                batchAborted, failed>>
            ELSE /\ MultiCatch(ai, "not exists")
                 /\ failed' = failed \cup {ai}
                 /\ UNCHANGED <<nActions, running, started, flagAtStart,
                                staleExec>>
  /\ UNCHANGED <<loopVars, agentVars, flagVars, out, navCalls, fallbacks,
                 strictAfterFallback, incThisStep, reportedDone>>
  /\ UNCHANGED <<stepVars, planVars, pageDynamic, pageChanged, otherVars>>

\* the for loop is over: line 364
MultiForDone ==
  /\ pc = "multi_for"
  /\ ai > nActions
  /\ ReturnResults
  /\ UNCHANGED <<loopVars, agentVars, flagVars, batchVars, out, navCalls,
                 fallbacks, strictAfterFallback, incThisStep, reportedDone,
                 started, failed, flagAtStart>>
  /\ UNCHANGED <<stepVars, planVars, snapVars, otherVars>>

\* What an executor does: it returns a result (done or not), returns
\* undefined, or throws.
ExecutorOutcomes == {"ok", "done", "undefined", "throw"}

\* lines 351-354 after the await, or the catch block
MultiCallReturn ==
  /\ pc = "multi_call"
  /\ running' = running \ {ai}
  /\ \E changes \in BOOLEAN :
       pageChanged' = (pageChanged \/ (pageDynamic /\ changes))
  /\ \E o \in ExecutorOutcomes :
       CASE o \in {"ok", "done"} ->
              /\ results' = Push(results, ExecResult(ai, o = "done"))
              /\ IF FlagSet THEN ReturnResults
                 ELSE pc' = "multi_delay" /\ UNCHANGED <<err, batchAborted>>
              /\ UNCHANGED <<ai, errCount, failed>>
         [] o = "undefined" ->
              MultiCatch(ai, "undefined") /\ failed' = failed \cup {ai}
         [] o = "throw" ->
              MultiCatch(ai, "thrown") /\ failed' = failed \cup {ai}
  /\ UNCHANGED <<loopVars, agentVars, flagVars, nActions, out, navCalls,
                 fallbacks, strictAfterFallback, incThisStep, reportedDone,
                 started, flagAtStart>>
  /\ UNCHANGED <<stepVars, planVars, pageDynamic, staleExec, otherVars>>

\* line 355: the settle delay is over, the for loop moves on
MultiDelay ==
  /\ pc = "multi_delay"
  /\ ai' = ai + 1
  /\ pc' = "multi_for"
  /\ UNCHANGED <<loopVars, agentVars, flagVars, nActions, results, errCount,
                 running, err, out, histVars>>
  /\ UNCHANGED <<stepVars, planVars, snapVars, otherVars>>

\* -------------------------------------------------- navigator.execute glue
\* the locals of the doMultiAction call are out of scope
BatchGone ==
  /\ nActions' = 0
  /\ ai' = 1
  /\ results' = <<>>
  /\ errCount' = 0
  /\ running' = {}
  /\ started' = <<>>
  /\ failed' = {}
  /\ pageChanged' = FALSE
  /\ staleExec' = FALSE

\* doMultiAction returned: execute reports success, done when the last
\* result carries the done flag
ExecuteReturnsResult ==
  /\ pc = "execute_results"
  /\ LET d == Len(results) > 0 /\ results[Len(results)].kind = "done"
     IN /\ out' = [kind |-> "result", done |-> d, msg |-> {}]
        /\ reportedDone' = (reportedDone \/ d)
  /\ lastBatch' = <<nActions, errCount>>
  /\ BatchGone
  /\ pc' = "handle"
  /\ UNCHANGED <<loopVars, agentVars, flagVars, err, navCalls, fallbacks,
                 strictAfterFallback, incThisStep, batchAborted, flagAtStart>>
  /\ UNCHANGED <<everFailed, planVars, pageDynamic, otherVars>>

\* invoke or doMultiAction threw: execute either reports the error in its
\* output or lets it propagate to the loop
ExecuteFails ==
  /\ pc = "execute_catch"
  /\ \E k \in {"error", "throw"} :
       out' = [kind |-> k, done |-> FALSE, msg |-> err]
  /\ BatchGone
  /\ err' = {}
  /\ pc' = "handle"
  /\ UNCHANGED <<loopVars, agentVars, flagVars, navCalls, fallbacks,
                 strictAfterFallback, incThisStep, batchAborted, reportedDone,
                 flagAtStart>>
  /\ UNCHANGED <<stepVars, planVars, snapVars, otherVars>>

\* --------------------------------------------------- the loop body, 423-467
\* a variant that flips the flags instead of clearing them
FallbackFlagsToggle ==
  /\ plannerWSO' = ~plannerWSO
  /\ navigatorWSO' = ~navigatorWSO

\* lines 451-454: both agents leave strict-schema mode
FallbackFlags ==
  /\ plannerWSO' = FALSE
  /\ navigatorWSO' = FALSE

\* the catch block, lines 443-467, entered with the counter at cf and the
\* counter already incremented inc times in this step
LoopCatch(cf, msg, inc) ==
  IF structuredOutput # "false" /\ SchemaFailureLoop(msg) /\ cf = 0
  THEN \* lines 449-456: fall back and retry the step
       /\ FallbackFlags
       /\ consecutiveFailures' = 0
       /\ fallbacks' = fallbacks + 1
       /\ incThisStep' = inc
       /\ pc' = "while"
       /\ UNCHANGED <<stepCount, done>>
  ELSE \* lines 459-466
       /\ consecutiveFailures' = cf + 1
       /\ incThisStep' = inc + 1
       /\ IF cf + 1 >= maxFailures
          THEN pc' = "threw" /\ UNCHANGED stepCount
          ELSE pc' = "while" /\ stepCount' = stepCount + 1
       /\ UNCHANGED <<agentVars, done, fallbacks>>

\* lines 423-430: out.error.  The throw of line 428 is raised inside the try
\* block of line 420, so the catch of line 443 receives it; its message ends
\* with out.error and so contains the same markers.
OutError ==
  IF consecutiveFailures + 1 >= maxFailures
  THEN LoopCatch(consecutiveFailures + 1, out.msg, 1)
  ELSE /\ consecutiveFailures' = consecutiveFailures + 1
       /\ incThisStep' = 1
       /\ stepCount' = stepCount + 1
       /\ pc' = "while"
       /\ UNCHANGED <<agentVars, done, fallbacks>>

\* a variant that leaves the loop after any successful step
OutSuccessBreaks ==
  /\ consecutiveFailures' = 0
  /\ done' = out.done
  /\ pc' = "returned"
  /\ UNCHANGED <<stepCount, agentVars, fallbacks, incThisStep>>

\* lines 431-442: success
OutSuccess ==
  /\ consecutiveFailures' = 0
  /\ IF out.done
     THEN done' = TRUE /\ pc' = "returned" /\ UNCHANGED stepCount
     ELSE stepCount' = stepCount + 1 /\ pc' = "while" /\ UNCHANGED done
  /\ UNCHANGED <<agentVars, fallbacks, incThisStep>>

Handle ==
  /\ pc = "handle"
  /\ CASE out.kind = "throw" -> LoopCatch(consecutiveFailures, out.msg, 0)
       [] out.kind = "error" -> OutError
       [] out.kind = "result" -> OutSuccess
  /\ out' = NoOut
  /\ everFailed' = (everFailed \/ out.kind # "result")
  /\ UNCHANGED <<maxSteps, maxFailures, structuredOutput, batchBound, flagVars,
                 batchVars, err, navCalls, strictAfterFallback,
                 batchAborted, reportedDone, started, failed, flagAtStart>>
  /\ UNCHANGED <<lastBatch, planVars, snapVars, otherVars>>

\* ---------------------------------------------------------- the environment
Running == pc \notin {"returned", "threw", "plan_threw"}

\* context.pause() from outside the control flow
Pause ==
  /\ Running
  /\ ~paused
  /\ paused' = TRUE
  /\ UNCHANGED <<pc, loopVars, agentVars, stopped, batchVars, err, out, histVars>>
  /\ UNCHANGED <<stepVars, planVars, snapVars, otherVars>>

\* context.stop() from outside the control flow
Stop ==
  /\ Running
  /\ ~stopped
  /\ stopped' = TRUE
  /\ UNCHANGED <<pc, loopVars, agentVars, paused, batchVars, err, out, histVars>>
  /\ UNCHANGED <<stepVars, planVars, snapVars, otherVars>>

Next ==
  \/ Setup
  \/ StepBegin
  \/ LoopExit
  \/ InvokeCall
  \/ InvokeStrictReturn
  \/ InvokeExtractReturn
  \/ DoMultiActionEnter
  \/ MultiActionStart
  \/ MultiForDone
  \/ MultiCallReturn
  \/ MultiDelay
  \/ ExecuteReturnsResult
  \/ ExecuteFails
  \/ Handle
  \/ Pause
  \/ Stop

Spec == Init /\ [][Next]_vars

SpecBatch == InitBatch /\ [][Next]_vars

SpecStep == InitStep /\ [][Next]_vars

\* one step on a page that the actions can change
InitSnapshot ==
  \E so \in StructuredOutputValues :
    /\ pc = "setup"
    /\ Fresh(1, 1, so, SnapshotBatch)
    /\ Planned
    /\ pageDynamic = TRUE
    /\ PayloadIdle
    /\ PageIdle

SpecSnapshot == InitSnapshot /\ [][Next]_vars

\* --------------------------------------- the planning phase, lines 264-295
\* a variant that ignores the error of the planner's output
PlanOutputRaisesNever(po) == FALSE

\* if (planOutput.error) throw new Error(planOutput.error) (line 282)
PlanOutputRaises(po) == po.kind = "error"

\* the task as runPlannerAndNavigator finds it, before the planner is called
InitTask ==
  \E ms \in 1..MaxStepsBound, mf \in 1..MaxFailuresBound,
     so \in StructuredOutputValues, po \in BOOLEAN :
    /\ pc = "planning"
    /\ Fresh(ms, mf, so, LoopBatch)
    /\ plannerOnly = po
    /\ planOut = [kind |-> "none", msg |-> {}]
    /\ plannerCalls = 0
    /\ event = NoEvent
    /\ pageDynamic = FALSE
    /\ PayloadIdle
    /\ PageIdle

\* line 271: planner.execute() is called
PlannerCall ==
  /\ pc = "planning"
  /\ plannerCalls' = plannerCalls + 1
  /\ pc' = "planner_execute"
  /\ UNCHANGED <<loopVars, agentVars, flagVars, batchVars, err, out, histVars,
                 stepVars, plannerOnly, planOut, event, snapVars, otherVars>>

\* What planner.execute() gives: an output with a plan, an output carrying an
\* error, or a thrown error.
PlannerOutcomes ==
  {[kind |-> "result", msg |-> {}]}
    \cup {[kind |-> k, msg |-> m] : k \in {"error", "throw"}, m \in Msgs}

\* lines 271-295: the call is over; a thrown error is thrown on (lines
\* 272-281), an error in the output is thrown (line 282), plannerOnly returns
\* the plan with done = false (lines 293-295), else the navigator is built
PlannerReturn ==
  /\ pc = "planner_execute"
  /\ \E po \in PlannerOutcomes :
       /\ planOut' = po
       /\ pc' = IF po.kind = "throw" \/ PlanOutputRaises(po) THEN "plan_threw"
                ELSE IF plannerOnly THEN "returned"
                ELSE "setup"
  /\ UNCHANGED <<loopVars, agentVars, flagVars, batchVars, err, out, histVars,
                 stepVars, plannerOnly, plannerCalls, event, snapVars, otherVars>>

\* ------------------------------------------------------ main, lines 572-600
\* line 584: runPlannerAndNavigator returned { plan, done }
EmitDone ==
  /\ pc = "returned"
  /\ event = NoEvent
  /\ event' = [type |-> "done", status |-> "done", plan |-> TRUE,
               done |-> done, error |-> FALSE]
  /\ UNCHANGED <<pc, loopVars, agentVars, flagVars, batchVars, err, out,
                 histVars, stepVars, plannerOnly, planOut, plannerCalls,
                 snapVars, otherVars>>

\* lines 590-594: runPlannerAndNavigator threw e
EmitFailed ==
  /\ pc \in {"threw", "plan_threw"}
  /\ event = NoEvent
  /\ event' = [type |-> "failed", status |-> "failed", plan |-> FALSE,
               done |-> FALSE, error |-> TRUE]
  /\ UNCHANGED <<pc, loopVars, agentVars, flagVars, batchVars, err, out,
                 histVars, stepVars, plannerOnly, planOut, plannerCalls,
                 snapVars, otherVars>>

NextTask ==
  \/ PlannerCall
  \/ PlannerReturn
  \/ Next
  \/ EmitDone
  \/ EmitFailed

SpecTask == InitTask /\ [][NextTask]_vars

\* ------------------------------- the payload of doMultiAction, lines 318-342
\* Single-key action objects, as values and as the JSON text of the value.
ActionObjects == {"A1", "A2"}

\* What else a list can hold: null, a number, a non-empty string.
Entries == ActionObjects \cup {"null", "num", "str"}

\* The pieces of a string: the JSON text of an entry, the punctuation of a
\* list, and text that is no JSON.
Tokens == Entries \cup {"[", "]", ",", "junk"}

SeqsUpTo(S, n) == UNION {[1..k -> S] : k \in 0..n}

\* JSON.stringify of a list
Encode(L) ==
  [i \in 1..(IF Len(L) = 0 THEN 2 ELSE 2 * Len(L) + 1) |->
     IF i = 1 THEN "["
     ELSE IF i = (IF Len(L) = 0 THEN 2 ELSE 2 * Len(L) + 1) THEN "]"
     ELSE IF i % 2 = 0 THEN L[i \div 2]
     ELSE ","]

\* JSON.parse (line 325): the text of one entry, or a bracketed list of
\* entries separated by commas; anything else is a syntax error
JSONParse(t) ==
  LET n == Len(t)
      inner == SubSeq(t, 2, n - 1)
      m == Len(inner)
  IN IF n = 1 /\ t[1] \in Entries
     THEN [ok |-> TRUE, list |-> FALSE, items |-> <<t[1]>>]
     ELSE IF /\ n >= 2 /\ t[1] = "[" /\ t[n] = "]"
             /\ (m = 0 \/ m % 2 = 1)
             /\ \A i \in 1..m :
                  IF i % 2 = 1 THEN inner[i] \in Entries ELSE inner[i] = ","
          THEN [ok |-> TRUE, list |-> TRUE,
                items |-> [i \in 1..((m + 1) \div 2) |-> inner[2 * i - 1]]]
          ELSE [ok |-> FALSE, list |-> FALSE, items |-> <<>>]

\* response.action: an array, a string, an object, another truthy value, or
\* nothing (undefined or null)
Payloads ==
  {[shape |-> "list", items |-> L] : L \in SeqsUpTo(Entries, MaxPayloadLen)}
    \cup {[shape |-> "string", items |-> Encode(L)] :
            L \in SeqsUpTo(Entries, MaxPayloadLen)}
    \cup {[shape |-> "string", items |-> t] : t \in SeqsUpTo(Tokens, MaxTextLen)}
    \cup {[shape |-> "object", items |-> <<a>>] : a \in ActionObjects}
    \cup {[shape |-> "scalar", items |-> <<>>], [shape |-> "missing", items |-> <<>>]}

Throws(m) == [kind |-> "throw", actions |-> <<>>, msg |-> m]

\* lines 334-342 for the value v that lines 321-331 left in actions: the for
\* loop needs an iterable (a list, or a string, whose characters it visits),
\* Object.keys needs a non-null entry, and args.intent needs the entry to
\* have a first key (an object, or a string, whose first key is "0")
LogLoop(v) ==
  IF ~v.list /\ v.items[1] # "str"
  THEN Throws("TypeError")
  ELSE IF \E i \in 1..Len(v.items) : v.items[i] \in {"null", "num"}
       THEN Throws("TypeError")
       ELSE [kind |-> "run", actions |-> v.items, msg |-> ""]

\* lines 321-331, then the logging loop
Normalize(p) ==
  CASE p.shape = "list" ->
         LogLoop([list |-> TRUE,
                  items |-> SelectSeq(p.items, LAMBDA x : x # "null")])
    [] p.shape = "string" ->
         LET r == JSONParse(p.items)
         IN IF r.ok THEN LogLoop([list |-> r.list, items |-> r.items])
            ELSE Throws("Invalid action output format")
    [] p.shape = "object" -> LogLoop([list |-> TRUE, items |-> p.items])
    [] p.shape = "scalar" -> LogLoop([list |-> TRUE, items |-> <<"num">>])
    [] p.shape = "missing" -> LogLoop([list |-> TRUE, items |-> <<>>])

\* doMultiAction is entered with any payload
InitPayload ==
  /\ pc = "multi_enter"
  /\ Fresh(1, 1, "undefined", 0)
  /\ Planned
  /\ pageDynamic = FALSE
  /\ payload \in Payloads
  /\ normOut = NoNorm
  /\ PageIdle

\* lines 318-342 run on the payload
NormalizePayload ==
  /\ normOut = NoNorm
  /\ normOut' = Normalize(payload)
  /\ UNCHANGED <<pc, loopVars, agentVars, flagVars, batchVars, err, out,
                 histVars, stepVars, planVars, snapVars, payload, pageVars,
                 extraVars>>

SpecPayload == InitPayload /\ [][NormalizePayload]_vars

\* ------------------------------------ the CLI browser adapter (part_000)
\* What buildDomTree can give for a page: the indices in use are the first
\* ones, and each element has one index.
Doms ==
  {d \in [Indices -> Elems \cup {"none"}] :
     \A i, j \in Indices :
       /\ (i # j /\ d[i] # "none") => d[i] # d[j]
       /\ (j < i /\ d[i] # "none") => d[j] # "none"}

\* the adapter with a page open, no snapshot taken, no CliPage handed out
InitPage ==
  /\ pc = "setup"
  /\ Fresh(1, 1, "undefined", 0)
  /\ Planned
  /\ pageDynamic = FALSE
  /\ PayloadIdle
  /\ dom \in Doms
  /\ ctxState = [taken |-> FALSE, map |-> EmptyMap]
  /\ inst = [made |-> FALSE, map |-> EmptyMap]
  /\ opResult = NoOp
  /\ ExtrasIdle

PageFrame ==
  UNCHANGED <<pc, loopVars, agentVars, flagVars, batchVars, err, out, histVars,
              stepVars, planVars, snapVars, payloadVars, extraVars>>

\* the page changes its elements
DomChange ==
  /\ dom' \in Doms \ {dom}
  /\ UNCHANGED <<ctxState, inst, opResult>>
  /\ PageFrame

\* CliBrowserContext.getState (lines 432-437): a CliPage is made by
\* getCurrentPage, its getState (lines 57-73) reads the selector map off the
\* page, and the state is returned; the CliPage is a local of the call
CtxGetState ==
  /\ ctxState' = [taken |-> TRUE, map |-> dom]
  /\ UNCHANGED <<dom, inst, opResult>>
  /\ PageFrame

\* CliBrowserContext.getCurrentPage (lines 373-377): new CliPage(p, config),
\* whose constructor (lines 11-24) starts with an empty selector map
GetCurrentPage ==
  /\ inst' = [made |-> TRUE, map |-> EmptyMap]
  /\ UNCHANGED <<dom, ctxState, opResult>>
  /\ PageFrame

\* CliPage.getState (lines 57-73) on the page the caller holds
PageGetState ==
  /\ inst.made
  /\ inst' = [made |-> TRUE, map |-> dom]
  /\ UNCHANGED <<dom, ctxState, opResult>>
  /\ PageFrame

\* this.state.selectorMap.get(index), the xpath test, and p.$x(xpath): lines
\* 166-169 and 179-182
ResolveDropdown(op, i) ==
  LET e == inst.map[i]
      k == IF e = "none" THEN "not_found"
           ELSE IF \E j \in Indices : dom[j] = e THEN "resolved"
           ELSE "handle_not_found"
  IN opResult' = [kind |-> k, op |-> op, index |-> i,
                  elem |-> IF k = "resolved" THEN e ELSE "none",
                  taken |-> ctxState.taken, snap |-> ctxState.map]

\* CliPage.getDropdownOptions (lines 165-176)
GetDropdownOptions(i) ==
  /\ inst.made
  /\ ResolveDropdown("getDropdownOptions", i)
  /\ UNCHANGED <<dom, ctxState, inst>>
  /\ PageFrame

\* CliPage.selectDropdownOption (lines 178-195)
SelectDropdownOption(i) ==
  /\ inst.made
  /\ ResolveDropdown("selectDropdownOption", i)
  /\ UNCHANGED <<dom, ctxState, inst>>
  /\ PageFrame

NextPage ==
  \/ DomChange
  \/ CtxGetState
  \/ GetCurrentPage
  \/ PageGetState
  \/ \E i \in Indices : GetDropdownOptions(i)
  \/ \E i \in Indices : SelectDropdownOption(i)

SpecPage == InitPage /\ [][NextPage]_vars

\* ------------------------------------ the tabs of CliBrowserContext
\* everything but the tabs
TabFrame ==
  UNCHANGED <<pc, loopVars, agentVars, flagVars, batchVars, err, out, histVars,
              stepVars, planVars, snapVars, payloadVars, pageVars, domVars, cliVars,
              uiVars>>

\* ensure() has launched the browser (lines 322-338): the pages the browser
\* came up with, the first of them current
InitTabs ==
  /\ pc = "setup"
  /\ Fresh(1, 1, "undefined", 0)
  /\ Planned
  /\ pageDynamic = FALSE
  /\ PayloadIdle
  /\ dom = EmptyMap
  /\ ctxState = [taken |-> FALSE, map |-> EmptyMap]
  /\ inst = [made |-> FALSE, map |-> EmptyMap]
  /\ opResult = NoOp
  /\ \E k \in 1..LaunchPages :
       /\ pages = [i \in 1..k |-> i]
       /\ pagesMade = k
  /\ currentIdx = 0
  /\ firstId = [p \in PageIds |-> 0]
  /\ tabOut = NoTabOut
  /\ DomIdle
  /\ CliIdle
  /\ UiIdle

\* the tab ids in use: i + 1 for the page at position i (lines 410, 427)
TabIdOf(p) == CHOOSE i \in 1..Len(pages) : pages[i] = p

IsOpen(p) == \E i \in 1..Len(pages) : pages[i] = p

\* the tab ids a caller may pass
TabIdArgs == 0..(MaxPagesMade + 1)

\* Array.prototype.splice(idx, 1) for a 0-based idx, which counts from the
\* end when negative and removes nothing when past the end
Splice(sq, idx) ==
  LET n == Len(sq)
      start == IF idx < 0 THEN (IF n + idx < 0 THEN 0 ELSE n + idx) ELSE idx
  IN IF start >= n THEN sq
     ELSE [i \in 1..(n - 1) |-> IF i <= start THEN sq[i] ELSE sq[i + 1]]

\* openTab (lines 384-397): the page is made, then loaded, then listed
OpenTab ==
  /\ pagesMade < MaxPagesMade
  /\ pagesMade' = pagesMade + 1
  /\ \E loaded \in BOOLEAN :
       IF loaded
       THEN /\ pages' = Append(pages, pagesMade + 1)
            /\ currentIdx' = Len(pages)
            /\ tabOut' = TabOut("openTab", 0, FALSE, pagesMade + 1, 0, <<>>)
       ELSE /\ UNCHANGED <<pages, currentIdx>>
            /\ tabOut' = TabOut("openTab", 0, TRUE, 0, 0, <<>>)
  /\ UNCHANGED firstId
  /\ TabFrame

\* switchTab (lines 399-406)
SwitchTab(tabId) ==
  /\ LET idx == tabId - 1
     IN IF idx < 0 \/ idx >= Len(pages)
        THEN /\ UNCHANGED currentIdx
             /\ tabOut' = TabOut("switchTab", tabId, TRUE, 0, 0, <<>>)
        ELSE /\ currentIdx' = idx
             /\ tabOut' = TabOut("switchTab", tabId, FALSE, pages[idx + 1], 0, <<>>)
  /\ UNCHANGED <<pages, pagesMade, firstId>>
  /\ TabFrame

\* closeTab (lines 413-420)
CloseTab(tabId) ==
  /\ pages' = Splice(pages, tabId - 1)
  /\ currentIdx' = IF currentIdx >= Len(pages')
                   THEN (IF Len(pages') - 1 > 0 THEN Len(pages') - 1 ELSE 0)
                   ELSE currentIdx
  /\ tabOut' = TabOut("closeTab", tabId, FALSE, 0, 0, <<>>)
  /\ UNCHANGED <<pagesMade, firstId>>
  /\ TabFrame

\* the ids a caller is told: i + 1 for the page at position i
TabIds == [i \in 1..Len(pages) |-> i]

ReportTabs(op) ==
  /\ firstId' = [p \in PageIds |->
                   IF firstId[p] = 0 /\ IsOpen(p) THEN TabIdOf(p) ELSE firstId[p]]
  /\ tabOut' = TabOut(op, 0, FALSE, 0, 0, TabIds)
  /\ UNCHANGED <<pages, currentIdx, pagesMade>>
  /\ TabFrame

\* getAllTabIds (lines 408-411)
GetAllTabIds == ReportTabs("getAllTabIds")

\* getTabInfos (lines 422-430)
GetTabInfos == ReportTabs("getTabInfos")

\* this.pages[this.currentIdx] (line 375): undefined past the end
CurrentPage == IF currentIdx < Len(pages) THEN pages[currentIdx + 1] ELSE 0

\* getCurrentPage (lines 373-377), the browser being launched
GetCurrentTabPage ==
  /\ tabOut' = TabOut("getCurrentPage", 0, FALSE, CurrentPage, 0, <<>>)
  /\ UNCHANGED <<pages, currentIdx, pagesMade, firstId>>
  /\ TabFrame

\* CliPage.getState, line 71: tabId: 1
StateTabId == 1

\* CliBrowserContext.getState (lines 432-437): the state of the current
\* page, which CliPage.getState cannot read from an undefined page, and
\* the tabs of getTabInfos
GetBrowserState ==
  /\ IF CurrentPage = 0
     THEN /\ tabOut' = TabOut("getState", 0, TRUE, 0, 0, <<>>)
          /\ UNCHANGED firstId
     ELSE /\ tabOut' = TabOut("getState", 0, FALSE, CurrentPage, StateTabId, TabIds)
          /\ firstId' = [p \in PageIds |->
                           IF firstId[p] = 0 /\ IsOpen(p) THEN TabIdOf(p) ELSE firstId[p]]
  /\ UNCHANGED <<pages, currentIdx, pagesMade>>
  /\ TabFrame

\* buildBrowserStateUserMessage (base.ts, lines 82-85): the id given as
\* 'Current tab' and the ids listed as 'Other available tabs'
CurrentTabOf(st) == st.tabId

OtherTabsOf(st) == SelectSeq(st.tabs, LAMBDA t : t # st.tabId)

NextTabs ==
  \/ OpenTab
  \/ \E t \in TabIdArgs : SwitchTab(t)
  \/ \E t \in TabIdArgs : CloseTab(t)
  \/ GetAllTabIds
  \/ GetTabInfos
  \/ GetCurrentTabPage
  \/ GetBrowserState

SpecTabs == InitTabs /\ [][NextTabs]_vars

\* ------------------------------------ the DOM service (part_000, 456-532)
\* the node ids of a flat node map of n nodes: "0", "1", ...
NodeIds(n) == 0..(n - 1)

\* x comes to r along par in at most k steps
Reaches(par, r, x, k) ==
  \E path \in [0..k -> DOMAIN par] :
    /\ path[0] = x
    /\ path[k] = r
    /\ \A i \in 1..k : path[i] = par[path[i - 1]]

\* the trees on n nodes: a root and a parent for every other node
TreeShapes(n) ==
  {t \in [root : NodeIds(n), par : [NodeIds(n) -> NodeIds(n)]] :
     /\ t.par[t.root] = t.root
     /\ \A x \in NodeIds(n) : Reaches(t.par, t.root, x, n)}

\* the members of S in rising or in falling order
Ordered(S, falling) ==
  CHOOSE f \in [1..Cardinality(S) -> S] :
    \A i, j \in 1..Cardinality(S) :
      i < j => IF falling THEN f[i] > f[j] ELSE f[i] < f[j]

\* the child ids of x in tree t
ChildIds(t, n, x) == {c \in NodeIds(n) : c # t.root /\ t.par[c] = x}

\* The flat node maps buildDomTree gives: the nodes of a tree, each element
\* with the ordered list of its child ids, text nodes without children,
\* some of the elements with a highlight index of their own; and the root
\* id, which a document without a body does not resolve.
DomInputsOf(n) ==
  {[n |-> n,
    kind |-> c[3],
    children |-> [x \in NodeIds(n) |-> Ordered(ChildIds(c[1], n, x), c[2])],
    hi |-> [x \in NodeIds(n) |-> IF x \in c[4] THEN x + 1 ELSE 0 - 1],
    rootId |-> c[5]] :
     c \in {d \in TreeShapes(n) \X BOOLEAN \X [NodeIds(n) -> {"element", "text"}]
                  \X (SUBSET NodeIds(n)) \X (0..n) :
              /\ \A x \in NodeIds(n) :
                   /\ ChildIds(d[1], n, x) # {} => d[3][x] = "element"
                   /\ x \in d[4] => d[3][x] = "element"
              /\ d[5] \in {d[1].root, n}}}

DomInputs == UNION {DomInputsOf(n) : n \in 1..MaxNodes}

\* _parse_node: a DOMElementNode or a DOMTextNode for the raw node
ParseNode(ep, id) == ep.kind[id]

\* lines 480-483: the ids that got a node
NodeMapIds(ep) == {id \in NodeIds(ep.n) : ParseNode(ep, id) # "null"}

\* a variant that keys every element by its node id
SelectorMapById(ep) ==
  {<<x, x>> : x \in {y \in NodeMapIds(ep) : ParseNode(ep, y) = "element"}}

\* lines 484-486: selectorMap.set(node.highlightIndex, node), in the order
\* of Object.entries, a later entry replacing an earlier one of the same key
SelectorMapOf(ep) ==
  {<<ep.hi[x], x>> :
     x \in {y \in NodeMapIds(ep) :
              /\ ParseNode(ep, y) = "element"
              /\ ep.hi[y] # 0 - 1
              /\ ~\E z \in NodeMapIds(ep) :
                    z > y /\ ParseNode(ep, z) = "element" /\ ep.hi[z] = ep.hi[y]}}

\* a variant that keeps the children of the call before
WireChildrenCached(ep, id) ==
  (IF domOut.kind = "ok" /\ id \in DOMAIN domOut.children
   THEN domOut.children[id] ELSE <<>>)
    \o (IF ParseNode(ep, id) = "element"
        THEN SelectSeq(ep.children[id], LAMBDA c : c \in NodeMapIds(ep))
        ELSE <<>>)

\* a variant that puts each child in front of the earlier ones
WireChildrenReversed(ep, id) ==
  LET cs == IF ParseNode(ep, id) = "element"
            THEN SelectSeq(ep.children[id], LAMBDA c : c \in NodeMapIds(ep))
            ELSE <<>>
  IN [i \in 1..Len(cs) |-> cs[Len(cs) + 1 - i]]

\* a variant that loses the last child of every element
WireChildrenDropLast(ep, id) ==
  LET cs == IF ParseNode(ep, id) = "element"
            THEN SelectSeq(ep.children[id], LAMBDA c : c \in NodeMapIds(ep))
            ELSE <<>>
  IN SubSeq(cs, 1, Len(cs) - 1)

\* lines 489-500: node.children of the node made for id
WireChildren(ep, id) ==
  IF ParseNode(ep, id) = "element"
  THEN SelectSeq(ep.children[id], LAMBDA c : c \in NodeMapIds(ep))
  ELSE <<>>

\* line 496: the parent of c is the last element, in the order of
\* Object.entries, that lists c; none is -1
ParentOf(ep, c) ==
  LET ps == {x \in NodeMapIds(ep) :
               \E i \in 1..Len(WireChildren(ep, x)) : WireChildren(ep, x)[i] = c}
  IN IF ps = {} THEN 0 - 1 ELSE CHOOSE x \in ps : \A y \in ps : y <= x

\* a variant that takes any node for the root
RootOkPresentOnly(ep) == ep.rootId \in NodeMapIds(ep)

\* lines 502-503: root && root instanceof DOMElementNode
RootOk(ep) ==
  ep.rootId \in NodeMapIds(ep) /\ ParseNode(ep, ep.rootId) = "element"

DomThrows(m, b) ==
  [kind |-> "throw", msg |-> m, blocked |-> b, root |-> 0 - 1,
   children |-> <<>>, parent |-> <<>>, selectorMap |-> {}]

\* constructDomTree (lines 473-507)
ConstructDomTree(ep) ==
  IF RootOk(ep)
  THEN [kind |-> "ok", msg |-> "", blocked |-> FALSE, root |-> ep.rootId,
        children |-> [x \in NodeMapIds(ep) |-> WireChildren(ep, x)],
        parent |-> [x \in NodeMapIds(ep) |-> ParentOf(ep, x)],
        selectorMap |-> SelectorMapOf(ep)]
  ELSE DomThrows("Failed to parse DOM tree", FALSE)

\* everything but the DOM snapshot
DomFrame ==
  UNCHANGED <<pc, loopVars, agentVars, flagVars, batchVars, err, out, histVars,
              stepVars, planVars, snapVars, payloadVars, pageVars, tabVars, cliVars,
              uiVars>>

\* a CliPage on a document that has no probe yet
InitDom ==
  /\ pc = "setup"
  /\ Fresh(1, 1, "undefined", 0)
  /\ Planned
  /\ pageDynamic = FALSE
  /\ PayloadIdle
  /\ dom = EmptyMap
  /\ ctxState = [taken |-> FALSE, map |-> EmptyMap]
  /\ inst = [made |-> FALSE, map |-> EmptyMap]
  /\ opResult = NoOp
  /\ TabsIdle
  /\ CliIdle
  /\ UiIdle
  /\ evalPage \in DomInputs
  /\ domOut = NoDomOut
  /\ stateSerial = 0
  /\ hasProbe = FALSE
  /\ onNewDoc = FALSE
  /\ csp \in BOOLEAN

\* CliPage.getState (lines 57-73) with getClickableElementsCLI (lines
\* 509-532) and ensureBuildDomTreeInjected (lines 456-471): a missing probe
\* is registered for later documents and injected now unless the document
\* refuses; buildDomTree is called, which throws when it is no function;
\* this.state is assigned when constructDomTree has returned
GetState ==
  /\ stateSerial < MaxSnapshots
  /\ onNewDoc' = (onNewDoc \/ ~hasProbe)
  /\ hasProbe' = (hasProbe \/ ~csp)
  /\ IF ~hasProbe'
     THEN /\ domOut' = DomThrows("buildDomTree is not a function", TRUE)
          /\ UNCHANGED stateSerial
     ELSE /\ domOut' = ConstructDomTree(evalPage)
          /\ stateSerial' = IF domOut'.kind = "ok" THEN stateSerial + 1
                            ELSE stateSerial
  /\ UNCHANGED <<evalPage, csp>>
  /\ DomFrame

\* the page loads a new document: the registered script runs in it; the
\* document has the same nodes, with or without a root that resolves
Navigate ==
  /\ hasProbe' = onNewDoc
  /\ csp' \in BOOLEAN
  /\ \E r \in {x \in 0..evalPage.n :
                 x = evalPage.n \/ ParentOf(evalPage, x) = 0 - 1} :
       evalPage' = [evalPage EXCEPT !.rootId = r]
  /\ domOut' = NoDomOut
  /\ UNCHANGED <<stateSerial, onNewDoc>>
  /\ DomFrame

NextDom ==
  \/ GetState
  \/ Navigate

SpecDom == InitDom /\ [][NextDom]_vars

\* Flat node maps as any page script may hand them over: every entry with
\* any list of child ids, ids of other entries, of itself, of the root, the
\* same id twice, or an id (n) that has no entry in the map.
RawInputsOf(n) ==
  {[n |-> n,
    kind |-> c[1],
    children |-> c[2],
    hi |-> [x \in NodeIds(n) |-> 0 - 1],
    rootId |-> 0] :
     c \in [NodeIds(n) -> {"element", "text"}]
            \X [NodeIds(n) -> UNION {[1..k -> 0..n] : k \in 0..MaxRawChildren}]}

RawInputs == UNION {RawInputsOf(n) : n \in 1..MaxRawNodes}

\* a CliPage on a document whose node map is any map
InitDomRaw ==
  /\ pc = "setup"
  /\ Fresh(1, 1, "undefined", 0)
  /\ Planned
  /\ pageDynamic = FALSE
  /\ PayloadIdle
  /\ dom = EmptyMap
  /\ ctxState = [taken |-> FALSE, map |-> EmptyMap]
  /\ inst = [made |-> FALSE, map |-> EmptyMap]
  /\ opResult = NoOp
  /\ TabsIdle
  /\ CliIdle
  /\ UiIdle
  /\ evalPage \in RawInputs
  /\ domOut = NoDomOut
  /\ stateSerial = 0
  /\ hasProbe = FALSE
  /\ onNewDoc = FALSE
  /\ csp \in BOOLEAN

SpecDomRaw == InitDomRaw /\ [][NextDom]_vars

\* ------------------------------------ the command line (planner-run.ts, 23-83, 495-538)
\* An argument is the text key followed by the text val: an option with a
\* value has the key up to and with its "=", any other argument is all val.
Arg(k, v) == [key |-> k, val |-> v]

\* the arguments tried
Args ==
  {Arg("", "-f"), Arg("--file=", "a.yaml"), Arg("", "a.yaml"), Arg("", "goal"),
   Arg("", "--no-structured"), Arg("", "--")}

\* the argument lists tried
Argvs == UNION {[1..k -> Args] : k \in 0..MaxArgs}

\* one turn of the for loop of lines 55-80, for the options main reads here
ParseOne(a, acc) ==
  IF a = Arg("", "--") THEN acc
  ELSE IF a.key = "--file=" THEN [acc EXCEPT !.file = a.val]
  ELSE IF a = Arg("", "--no-structured") THEN [acc EXCEPT !.structuredOutput = "false"]
  ELSE [acc EXCEPT !.rest = Append(@, a.val)]

RECURSIVE ParseLoop(_, _)
ParseLoop(as, acc) ==
  IF as = <<>> THEN acc ELSE ParseLoop(Tail(as), ParseOne(Head(as), acc))

\* parseArgs (lines 23-83)
ParseArgsOf(as) == ParseLoop(as, [NoParsed EXCEPT !.done = TRUE])

ArgFrame ==
  UNCHANGED <<pc, loopVars, agentVars, flagVars, batchVars, err, out, histVars,
              stepVars, planVars, snapVars, payloadVars, pageVars, tabVars,
              domVars, mainVars, uiVars>>

\* the process has been started with some arguments
InitArgs ==
  /\ pc = "setup"
  /\ Fresh(1, 1, "undefined", 0)
  /\ Planned
  /\ pageDynamic = FALSE
  /\ PayloadIdle
  /\ dom = EmptyMap
  /\ ctxState = [taken |-> FALSE, map |-> EmptyMap]
  /\ inst = [made |-> FALSE, map |-> EmptyMap]
  /\ opResult = NoOp
  /\ TabsIdle
  /\ DomIdle
  /\ MainIdle
  /\ UiIdle
  /\ argv \in Argvs
  /\ parsed = NoParsed
  /\ commands = NoCommands

\* line 496
ParseArgs ==
  /\ ~parsed.done
  /\ parsed' = ParseArgsOf(argv)
  /\ UNCHANGED <<argv, commands>>
  /\ ArgFrame

\* lines 497-538: the commands come from the file of --file=, or are the
\* one inline string made of the other arguments (its words are kept here,
\* the string being the words with one blank between them), or come from
\* prompts.yaml if there is one, or the usage is printed
LoadCommands ==
  /\ parsed.done
  /\ commands = NoCommands
  /\ \E defaultThere \in BOOLEAN :
       commands' = IF parsed.file # "" THEN [kind |-> "file", file |-> parsed.file, inline |-> <<>>]
                   ELSE IF parsed.rest # <<>> THEN [kind |-> "inline", file |-> "", inline |-> parsed.rest]
                   ELSE IF defaultThere THEN [kind |-> "file", file |-> "prompts.yaml", inline |-> <<>>]
                   ELSE [kind |-> "usage", file |-> "", inline |-> <<>>]
  /\ UNCHANGED <<argv, parsed>>
  /\ ArgFrame

NextArgs ==
  \/ ParseArgs
  \/ LoadCommands

SpecArgs == InitArgs /\ [][NextArgs]_vars

\* ------------------------------------ main after the context is made (planner-run.ts, 553-600)
\* a variant that exits with 0 from the catch block too
ExitCodeAlwaysZero(raised) == 0

\* lines 590 and 600: process.exit(0) at the end of the try block,
\* process.exit(1) at the end of the catch block
ExitCodeFor(raised) == IF raised THEN 1 ELSE 0

MainFrame ==
  UNCHANGED <<pc, loopVars, agentVars, flagVars, batchVars, err, out, histVars,
              stepVars, planVars, snapVars, payloadVars, pageVars, tabVars,
              domVars, argVars, uiVars>>

\* main has made the browser context and has its commands
InitMain ==
  /\ pc = "setup"
  /\ Fresh(1, 1, "undefined", 0)
  /\ Planned
  /\ pageDynamic = FALSE
  /\ PayloadIdle
  /\ dom = EmptyMap
  /\ ctxState = [taken |-> FALSE, map |-> EmptyMap]
  /\ inst = [made |-> FALSE, map |-> EmptyMap]
  /\ opResult = NoOp
  /\ TabsIdle
  /\ DomIdle
  /\ ArgsIdle
  /\ UiIdle
  /\ mainPc = "tasks"
  /\ nCmds \in 0..MaxCmds
  /\ taskLog = <<>>
  /\ inFlight = {}
  /\ Unpatched
  /\ mainLog = <<>>
  /\ exitCode = 0 - 1

\* a variant of the loop that goes on without waiting for the run
RunNotAwaited == TRUE

\* line 575: const res = await runPlannerAndNavigator(...): the loop goes
\* on when the run it has started is over
RunAwaited == inFlight = {}

\* lines 573-575: the loop takes the next command, emits 'start' and calls
\* runPlannerAndNavigator with the one context ctx
TaskStarts ==
  /\ mainPc = "tasks"
  /\ RunAwaited
  /\ Len(taskLog) + Cardinality(inFlight) < nCmds
  /\ inFlight' = inFlight \cup {Len(taskLog) + Cardinality(inFlight) + 1}
  /\ runAt' = "planning"
  /\ UNCHANGED <<mainPc, nCmds, taskLog, mainLog, exitCode, cliPatched,
                 cliInvokePatched, multiWraps, invokeWraps, patchChecks>>
  /\ MainFrame

\* a variant that patches in every run
NeedsPatchAlways(flag) == TRUE

\* lines 307 and 371: if (!...__cliPatched), if (!...__cliInvokePatched)
NeedsPatch(flag) == ~flag

\* lines 305-392 of runPlannerAndNavigator, come to when the planner has
\* given its plan and the run is not planner-only: each patch wraps the
\* method that is on the prototype and sets its flag on the class
InstallPatches ==
  /\ mainPc = "tasks"
  /\ inFlight # {}
  /\ runAt = "planning"
  /\ runAt' = "navigating"
  /\ patchChecks' = patchChecks + 1
  /\ multiWraps' = IF NeedsPatch(cliPatched) THEN multiWraps + 1 ELSE multiWraps
  /\ cliPatched' = TRUE
  /\ invokeWraps' = IF NeedsPatch(cliInvokePatched) THEN invokeWraps + 1 ELSE invokeWraps
  /\ cliInvokePatched' = TRUE
  /\ UNCHANGED <<mainPc, nCmds, taskLog, inFlight, mainLog, exitCode>>
  /\ MainFrame

\* lines 575-586: runPlannerAndNavigator returns, with done true or
\* false, and the 'done' event is emitted
TaskReturns ==
  /\ mainPc = "tasks"
  /\ \E k \in inFlight :
       /\ inFlight' = inFlight \ {k}
       /\ \E d \in {"done_true", "done_false"} : taskLog' = Append(taskLog, d)
  /\ runAt' = "none"
  /\ UNCHANGED <<mainPc, nCmds, mainLog, exitCode, cliPatched, cliInvokePatched,
                 multiWraps, invokeWraps, patchChecks>>
  /\ MainFrame

\* lines 591-598: runPlannerAndNavigator raises; the catch block emits
\* 'failed' and asks for Enter
TaskRaises ==
  /\ mainPc = "tasks"
  /\ \E k \in inFlight : inFlight' = inFlight \ {k}
  /\ taskLog' = Append(taskLog, "raised")
  /\ mainLog' = Append(mainLog, "prompt")
  /\ mainPc' = "prompt_catch"
  /\ runAt' = "none"
  /\ UNCHANGED <<nCmds, exitCode, cliPatched, cliInvokePatched, multiWraps,
                 invokeWraps, patchChecks>>
  /\ MainFrame

\* lines 587-588: the loop is over; the try block asks for Enter
AllTasksCompleted ==
  /\ mainPc = "tasks"
  /\ RunAwaited
  /\ Len(taskLog) + Cardinality(inFlight) = nCmds
  /\ mainLog' = Append(mainLog, "prompt")
  /\ mainPc' = "prompt_try"
  /\ UNCHANGED <<nCmds, taskLog, inFlight, exitCode, patchVars>>
  /\ MainFrame

\* waitForUserInput (lines 479-493) resolves in the callback of
\* rl.question; lines 589 and 599 then call ctx.cleanup()
EnterPressed ==
  /\ mainPc \in {"prompt_try", "prompt_catch"}
  /\ mainLog' = mainLog \o <<"enter", "cleanup">>
  /\ mainPc' = IF mainPc = "prompt_try" THEN "cleanup_try" ELSE "cleanup_catch"
  /\ UNCHANGED <<nCmds, taskLog, inFlight, exitCode, patchVars>>
  /\ MainFrame

\* cleanup (part_000, lines 363-371) returns, browser.close() having
\* succeeded or thrown; lines 590 and 600 exit
CleanupReturns ==
  /\ mainPc \in {"cleanup_try", "cleanup_catch"}
  /\ \E closed \in {"closed", "close_threw"} :
       mainLog' = mainLog \o <<closed, "exit">>
  /\ exitCode' = ExitCodeFor(mainPc = "cleanup_catch")
  /\ mainPc' = "exited"
  /\ UNCHANGED <<nCmds, taskLog, inFlight, patchVars>>
  /\ MainFrame

NextMain ==
  \/ TaskStarts
  \/ InstallPatches
  \/ TaskReturns
  \/ TaskRaises
  \/ AllTasksCompleted
  \/ EnterPressed
  \/ CleanupReturns

SpecMain == InitMain /\ [][NextMain]_vars

\* ------------------------------------ the state message (prompts/base.ts, 30-54)
\* a line of the message: a marker, a scroll hint with its pixel count, or
\* a line of the element listing
Line(k, n) == [kind |-> k, n |-> n]

\* the listings tried: clickableElementsToString gives '' or some lines
Listings == UNION {[1..k -> {Line("element", 1), Line("element", 2)}] : k \in 0..MaxLines}

\* the pixel counts tried: undefined, or a number
Pixels == {Px(FALSE, 0)} \cup {Px(TRUE, v) : v \in (0 - 1)..MaxPixels}

\* a variant that takes every defined count for content
HasContentIfDefined(px) == px.def

\* lines 34-35: (browserState.pixelsAbove || 0) > 0
HasContent(px) == (IF px.def /\ px.val # 0 THEN px.val ELSE 0) > 0

\* lines 37-54: formattedElementsText
FormatElements(st) ==
  IF st.elements # <<>>
  THEN (IF HasContent(st.pixelsAbove)
        THEN <<Line("pixels_above", st.pixelsAbove.val)>>
        ELSE <<Line("start_of_page", 0)>>)
       \o st.elements
       \o (IF HasContent(st.pixelsBelow)
           THEN <<Line("pixels_below", st.pixelsBelow.val)>>
           ELSE <<Line("end_of_page", 0)>>)
  ELSE <<Line("empty_page", 0)>>

UiFrame ==
  UNCHANGED <<pc, loopVars, agentVars, flagVars, batchVars, err, out, histVars,
              stepVars, planVars, snapVars, payloadVars, pageVars, tabVars,
              domVars, cliVars>>

\* a browser state is at hand
InitMessage ==
  /\ pc = "setup"
  /\ Fresh(1, 1, "undefined", 0)
  /\ Planned
  /\ pageDynamic = FALSE
  /\ PayloadIdle
  /\ dom = EmptyMap
  /\ ctxState = [taken |-> FALSE, map |-> EmptyMap]
  /\ inst = [made |-> FALSE, map |-> EmptyMap]
  /\ opResult = NoOp
  /\ TabsIdle
  /\ DomIdle
  /\ CliIdle
  /\ ConnIdle
  /\ msgIn \in [elements : Listings, pixelsAbove : Pixels, pixelsBelow : Pixels]
  /\ msgOut = <<>>

\* buildBrowserStateUserMessage, lines 30-54
BuildBrowserStateUserMessage ==
  /\ msgOut = <<>>
  /\ msgOut' = FormatElements(msgIn)
  /\ UNCHANGED <<msgIn, connVars>>
  /\ UiFrame

NextMessage == BuildBrowserStateUserMessage

SpecMessage == InitMessage /\ [][NextMessage]_vars

\* ------------------------------------ the connection test (TaskBridgeSettings.tsx, 76-120)
\* The closure of one testConnection call: its finished flag, its 3 s timer
\* (none, pending, cleared, fired), its socket (none, connecting, open,
\* closing, closed) and whether the socket has had its error event; and
\* for the properties: the calls of setTestResult it has made, the first
\* thing that happened in it and the result it gave.
Run(f, t, k, e, n, first, res) ==
  [finished |-> f, timer |-> t, sock |-> k, errored |-> e, reports |-> n,
   first |-> first, result |-> res]

\* a variant of finish without its guard
NeverFinished(rec) == FALSE

\* line 85: if (finished) return
AlreadyFinished(rec) == rec.finished

\* clearTimeout(timeout), lines 106 and 110
ClearTimer(rec) == [rec EXCEPT !.timer = IF @ = "pending" THEN "cleared" ELSE @]

\* the first thing that happened in the run
Happened(rec, ev) == [rec EXCEPT !.first = IF @ = "none" THEN ev ELSE @]

\* finish (lines 84-93) in run r, whose closure is rec: the first call sets
\* the flag, the two states of the component and closes the socket
Finish(r, rec, res) ==
  IF AlreadyFinished(rec)
  THEN /\ conn' = [conn EXCEPT ![r] = rec]
       /\ UNCHANGED <<testing, testResult>>
  ELSE /\ conn' = [conn EXCEPT ![r] =
                     [rec EXCEPT !.finished = TRUE,
                                 !.reports = @ + 1,
                                 !.result = res,
                                 !.sock = IF @ \in {"connecting", "open"}
                                          THEN "closing" ELSE @]]
       /\ testing' = FALSE
       /\ testResult' = res

ConnFrame ==
  /\ UNCHANGED msgVars
  /\ UiFrame

\* the options page is mounted
InitConn ==
  /\ pc = "setup"
  /\ Fresh(1, 1, "undefined", 0)
  /\ Planned
  /\ pageDynamic = FALSE
  /\ PayloadIdle
  /\ dom = EmptyMap
  /\ ctxState = [taken |-> FALSE, map |-> EmptyMap]
  /\ inst = [made |-> FALSE, map |-> EmptyMap]
  /\ opResult = NoOp
  /\ TabsIdle
  /\ DomIdle
  /\ CliIdle
  /\ MsgIdle
  /\ ConnIdle

\* testConnection (lines 76-120), from the button, which is disabled while
\* testing (line 245): the URL is refused (lines 96-99), or the WebSocket
\* constructor throws (lines 117-119), or the socket is made, the timer
\* set and the handlers put on (lines 100-116)
TestConnection ==
  /\ ~testing
  /\ nRuns < MaxRuns
  /\ nRuns' = nRuns + 1
  /\ \E how \in {"invalid_url", "exception", "connecting"} :
       IF how = "connecting"
       THEN /\ conn' = Append(conn, Run(FALSE, "pending", "connecting", FALSE, 0, "none", "null"))
            /\ testing' = TRUE
            /\ testResult' = "null"
       ELSE /\ conn' = Append(conn, Run(TRUE, "none", "none", FALSE, 1, how, how))
            /\ testing' = FALSE
            /\ testResult' = how
  /\ ConnFrame

\* ws.onopen (lines 104-108)
OnOpen(r) ==
  /\ r \in 1..Len(conn)
  /\ conn[r].sock = "connecting"
  /\ Finish(r, Happened(ClearTimer([conn[r] EXCEPT !.sock = "open"]), "open"), "open")
  /\ UNCHANGED nRuns
  /\ ConnFrame

\* ws.onerror (lines 109-112)
OnError(r) ==
  /\ r \in 1..Len(conn)
  /\ conn[r].sock \in {"connecting", "open", "closing"}
  /\ ~conn[r].errored
  /\ Finish(r, Happened(ClearTimer([conn[r] EXCEPT !.errored = TRUE]), "error"), "error")
  /\ UNCHANGED nRuns
  /\ ConnFrame

\* ws.onclose (lines 113-116)
OnClose(r) ==
  /\ r \in 1..Len(conn)
  /\ conn[r].sock \in {"connecting", "open", "closing"}
  /\ LET rec == Happened([conn[r] EXCEPT !.sock = "closed"], "close")
     IN IF ~rec.finished
        THEN Finish(r, rec, "close")
        ELSE /\ conn' = [conn EXCEPT ![r] = rec]
             /\ UNCHANGED <<testing, testResult>>
  /\ UNCHANGED nRuns
  /\ ConnFrame

\* the timer of line 102 fires
Timeout(r) ==
  /\ r \in 1..Len(conn)
  /\ conn[r].timer = "pending"
  /\ Finish(r, Happened([conn[r] EXCEPT !.timer = "fired"], "timeout"), "timeout")
  /\ UNCHANGED nRuns
  /\ ConnFrame

NextConn ==
  \/ TestConnection
  \/ \E r \in 1..MaxRuns : OnOpen(r)
  \/ \E r \in 1..MaxRuns : OnError(r)
  \/ \E r \in 1..MaxRuns : OnClose(r)
  \/ \E r \in 1..MaxRuns : Timeout(r)

\* a timer that is pending fires
SpecConn ==
  /\ InitConn
  /\ [][NextConn]_vars
  /\ \A r \in 1..MaxRuns : WF_vars(Timeout(r))

\* the terminal state of the orchestration loop
LoopState ==
  CASE pc = "returned" /\ done -> "DONE"
    [] pc = "returned" /\ ~done -> "INCOMPLETE"
    [] pc = "threw" -> "FAILED"
    [] OTHER -> "ACTING"

\* ================================================================ claims
InBatch == pc \in {"multi_enter", "multi_for", "multi_call", "multi_delay"}

\* C1: the loop ends DONE exactly when the Navigator reported done = true
\* while the step budget was not used up, FAILED exactly when the failure
\* counter has reached maxFailures, and INCOMPLETE exactly when maxSteps is
\* used up with neither of the two.
C1_LoopOutcome ==
  /\ LoopState = "DONE" => reportedDone /\ stepCount < maxSteps
  /\ reportedDone => LoopState = "DONE" \/ (pc = "handle" /\ out.done)
  /\ LoopState = "FAILED" => consecutiveFailures >= maxFailures /\ ~reportedDone
  /\ consecutiveFailures >= maxFailures => LoopState = "FAILED"
  /\ LoopState = "INCOMPLETE" =>
       stepCount >= maxSteps /\ ~reportedDone /\ consecutiveFailures < maxFailures
  /\ (stepCount >= maxSteps /\ ~reportedDone /\ consecutiveFailures < maxFailures)
       => LoopState = "INCOMPLETE" \/ pc = "while"

\* a task that fails on its third step, after a step that succeeded
C1_Witness ==
  /\ LoopState = "FAILED"
  /\ maxFailures = 2
  /\ stepCount = 2
  /\ navCalls = 3

\* C2 (as claimed): the number of Navigator invocations of a task is bounded
\* by its step budget and its failure budget.
C2_Original == navCalls <= maxSteps + maxFailures

\* C3 (as claimed): within one task a fallback branch is taken at most once,
\* and no strict-schema attempt follows a fallback.
C3_Original == fallbacks <= 1 /\ ~strictAfterFallback

\* C4: once withStructuredOutput of an agent is false it stays false for the
\* rest of the task, whatever the later model calls return.
C4_DowngradeIrreversible ==
  [][(~navigatorWSO => ~navigatorWSO') /\ (~plannerWSO => ~plannerWSO')]_vars

\* the flag went down in a fallback and a later model call has returned
C4_Witness ==
  /\ fallbacks >= 1
  /\ ~navigatorWSO
  /\ ~plannerWSO
  /\ navCalls >= 2
  /\ pc = "multi_enter"

\* C5 (as claimed): with maxFailures = 3, a batch with 4 action-level errors
\* aborts the step at the 4th error, no later action of the batch runs, and
\* the failure counter is incremented exactly once for that step.
C5_Original ==
  (maxFailures = 3 /\ batchAborted) =>
    /\ ~InBatch
    /\ running = {}
    /\ pc \in {"while", "threw", "returned"} => incThisStep = 1

\* C6: with at most 3 failing actions and no flag set, doMultiAction returns
\* one result per action, in place; the result of each failed action is an
\* error result kept in history, and no other result is an error result; the
\* call throws only when a 4th action has failed.
C6_ErrorsCaptured ==
  /\ (pc = "execute_results" /\ ~paused /\ ~stopped) =>
       /\ Len(results) = nActions
       /\ Cardinality(failed) <= 3
       /\ \A i \in 1..nActions :
            /\ results[i].act = i
            /\ i \in failed =>
                 results[i].kind = "error" /\ results[i].includeInMemory
            /\ i \notin failed => results[i].kind # "error"
  /\ InBatch => Cardinality(failed) <= 3
  /\ (pc = "execute_catch" /\ batchAborted) => Cardinality(failed) = 4

\* three actions failed, the first among them, and the fourth still ran
C6_Witness ==
  /\ pc = "execute_results"
  /\ ~paused /\ ~stopped
  /\ nActions = 4
  /\ failed = {1, 2, 3}
  /\ results[4].kind = "ok"
  /\ started = <<2, 4>>

\* C7: at most one executor is in flight, executors are started in the
\* order of the batch, each after the earlier ones have returned or thrown,
\* and the results are in the order of the actions.
C7_SequentialInOrder ==
  /\ Cardinality(running) <= 1
  /\ running \subseteq {ai}
  /\ \A j \in 1..Len(started) : \A k \in 1..Len(started) :
       j < k => started[j] < started[k]
  /\ \A j \in 1..Len(results) : \A k \in 1..Len(results) :
       j < k => results[j].act < results[k].act
  /\ pc = "multi_call" =>
       /\ Len(started) > 0 /\ started[Len(started)] = ai
       /\ \A j \in 1..Len(results) : results[j].act < ai

\* a batch of four executors has run to its end
C7_Witness ==
  /\ pc = "execute_results"
  /\ started = <<1, 2, 3, 4>>
  /\ Len(results) = 4
  /\ results[2].kind = "error"

\* C8: no executor is started while paused or stopped is set, and a batch
\* cut short by a flag returns the results of the actions handled before the
\* flag was seen, and of no other.
C8_FlagsBeforeEachAction ==
  /\ ~flagAtStart
  /\ pc = "multi_call" => Len(results) = ai - 1
  /\ pc = "execute_results" =>
       /\ \A j \in 1..Len(results) : results[j].act = j
       /\ Len(results) \in {ai - 1, ai}
       /\ Len(results) < nActions => (paused \/ stopped)

\* a flag was set while the second of four actions was handled
C8_Witness ==
  /\ pc = "execute_results"
  /\ stopped
  /\ nActions = 4
  /\ Len(results) = 2
  /\ started = <<1, 2>>

\* C9 (as claimed): with paused or stopped set, the loop does not begin
\* another Navigator step.
C9_Original ==
  [][(pc = "while" /\ (paused \/ stopped)) => pc' # "execute"]_vars

\* C10 (as claimed): an executor that returned undefined is never turned
\* into an error result, and no action of the batch runs after it.
C10_Original ==
  \A j \in 1..Len(results) : results[j].cause # "undefined"

\* C11: when planner.execute() throws or returns an output carrying an error,
\* runPlannerAndNavigator raises: no Navigator step and no browser action has
\* run for the task, and no loop result is returned to main.
C11_PlannerErrorAborts ==
  planOut.kind \in {"error", "throw"} =>
    /\ pc = "plan_threw"
    /\ navCalls = 0
    /\ nActions = 0 /\ running = {} /\ started = <<>>
    /\ event.type # "done"

\* the planner returned an output carrying an error and main reported it
C11_Witness ==
  /\ planOut.kind = "error"
  /\ pc = "plan_threw"
  /\ event.type = "failed"

\* C12 (as claimed): a schema-conversion failure met by the Planner call does
\* not abort the task; the planner leaves strict-schema mode and the task
\* proceeds.
C12_Original ==
  (planOut.kind \in {"error", "throw"} /\ SchemaFailureInvoke(planOut.msg)) =>
    pc # "plan_threw" /\ ~plannerWSO

\* C13: planner.execute() is called exactly once per task, before the first
\* navigator.execute() call, and never again, whatever the steps give.
C13_PlannerOnce ==
  /\ plannerCalls <= 1
  /\ pc = "planning" <=> plannerCalls = 0
  /\ navCalls > 0 => plannerCalls = 1

\* three steps, one of them failed, and the loop is over
C13_Witness ==
  /\ pc = "returned"
  /\ navCalls = 3
  /\ everFailed
  /\ plannerCalls = 1

\* C14 (as claimed): the failure counter stays within 0..maxFailures and is
\* incremented exactly once by a failed step.
C14_Original ==
  /\ 0 <= consecutiveFailures
  /\ consecutiveFailures <= maxFailures
  /\ incThisStep <= 1

\* C15: stepCount never decreases, changes by one at a time, and never
\* exceeds maxSteps.
C15_StepCountMonotonic ==
  [][/\ stepCount' \in {stepCount, stepCount + 1}
     /\ stepCount' <= maxSteps']_vars

\* the whole budget of three steps was spent, a failed step among them
C15_Witness ==
  /\ pc = "returned"
  /\ maxSteps = 3
  /\ stepCount = 3
  /\ everFailed

\* C16: while every step succeeds without reporting done the loop goes on,
\* and it ends after exactly maxSteps navigator steps, INCOMPLETE, with
\* done = false.
C16_AllSuccessIncomplete ==
  /\ (pc = "while" /\ ~everFailed /\ ~reportedDone /\ navCalls < maxSteps)
       => WhileCond
  /\ (pc = "returned" /\ ~everFailed /\ ~reportedDone) =>
       /\ navCalls = maxSteps
       /\ stepCount = maxSteps
       /\ ~done
       /\ LoopState = "INCOMPLETE"

\* maxSteps = 1, maxFailures = 3: one batch of a single action, no error
C16_Witness ==
  /\ pc = "returned"
  /\ maxSteps = 1
  /\ maxFailures = 3
  /\ lastBatch = <<1, 0>>
  /\ ~everFailed
  /\ ~done
  /\ navCalls = 1
  /\ LoopState = "INCOMPLETE"

\* C17 (as claimed): for a task that ended FAILED or INCOMPLETE, the event
\* main emits does not carry the status of a completed task, carries the
\* plan, and carries the last error when a step has failed.
C17_Original ==
  (event.type # "none" /\ ~plannerOnly
     /\ LoopState \in {"FAILED", "INCOMPLETE"}) =>
    /\ event.status # "done"
    /\ event.plan
    /\ everFailed => event.error

\* the list of actions the claim expects for a payload, if any
C18_IsActionList(L) == \A i \in 1..Len(L) : L[i] \in ActionObjects

C18_Canonical ==
  \/ payload.shape = "list" /\ C18_IsActionList(payload.items)
  \/ payload.shape = "object"
  \/ /\ payload.shape = "string"
     /\ \E L \in SeqsUpTo(ActionObjects, MaxPayloadLen) : payload.items = Encode(L)

C18_Expected ==
  IF payload.shape = "string"
  THEN CHOOSE L \in SeqsUpTo(ActionObjects, MaxPayloadLen) : payload.items = Encode(L)
  ELSE payload.items

\* C18 (as claimed): a list of single-key action objects, its JSON text and
\* a single action object give the same ordered list of actions, and every
\* other payload is refused with an error before any action runs.
C18_Original ==
  normOut.kind # "none" =>
    IF C18_Canonical
    THEN normOut.kind = "run" /\ normOut.actions = C18_Expected
    ELSE normOut.kind = "throw"

\* C19 (as claimed): once an action of a batch has changed the page, no
\* later action of that batch is started with an index taken from the
\* snapshot the batch was built on.
C19_Original == ~staleExec

\* C20 (as claimed): a dropdown operation on the page that getCurrentPage
\* returned, made after CliBrowserContext.getState() gave a snapshot,
\* resolves an index of that snapshot to the snapshot's element, and reports
\* 'element not found' only for an index the snapshot does not hold.
C20_Original ==
  (opResult.kind # "none" /\ opResult.taken) =>
    /\ opResult.kind = "resolved" => opResult.elem = opResult.snap[opResult.index]
    /\ opResult.kind = "not_found" => opResult.snap[opResult.index] = "none"

\* C30: an action whose name is not registered starts no executor; it gets
\* an error result of its own, which counts toward the error limit, and the
\* for loop moves on to the next action unless the limit is passed.
C30_UnknownName ==
  /\ \A j \in 1..Len(results) :
       results[j].cause = "not exists" =>
         /\ results[j].kind = "error"
         /\ results[j].act \in failed
         /\ results[j].act \notin running
         /\ \A k \in 1..Len(started) : started[k] # results[j].act
  /\ InBatch => errCount = Cardinality(failed)
  /\ (pc = "multi_for" /\ Len(results) > 0
        /\ results[Len(results)].cause = "not exists")
       => ai = results[Len(results)].act + 1
  /\ (pc = "execute_catch" /\ batchAborted) => errCount > ErrLimit
  /\ (pc = "execute_results" /\ ~paused /\ ~stopped) => Len(results) = nActions

\* the second of four names is unknown and the third and fourth still ran
C30_Witness ==
  /\ pc = "execute_results"
  /\ nActions = 4
  /\ Len(results) = 4
  /\ results[2].cause = "not exists"
  /\ started = <<1, 3, 4>>
  /\ results[3].kind = "ok"
  /\ results[4].kind = "ok"

\* C21 (as claimed): a tab id that was reported for a page denotes that page
\* for as long as the page is open.
C21_Original ==
  \A p \in PageIds :
    (IsOpen(p) /\ firstId[p] # 0) => TabIdOf(p) = firstId[p]

\* the nodes met walking tree from x, parents before children,
\* children in their order, to depth fuel
RECURSIVE C22_Walk(_, _, _)
RECURSIVE C22_WalkAll(_, _, _)
C22_Walk(tree, x, fuel) ==
  <<x>> \o (IF fuel = 0 THEN <<>> ELSE C22_WalkAll(tree, tree.children[x], fuel - 1))

C22_WalkAll(tree, cs, fuel) ==
  IF cs = <<>> THEN <<>>
  ELSE C22_Walk(tree, Head(cs), fuel) \o C22_WalkAll(tree, Tail(cs), fuel)

\* C22: the tree constructDomTree returns for a valid flat node map of N
\* nodes has exactly N nodes and exactly one root: the walk from the root
\* element meets every entry of the map exactly once, and the root is the
\* only node without a parent.
C22_TreeHasEveryNodeOnce ==
  domOut.kind = "ok" =>
    LET w == C22_Walk(domOut, domOut.root, evalPage.n)
    IN /\ Len(w) = evalPage.n
       /\ {w[i] : i \in 1..Len(w)} = NodeIds(evalPage.n)
       /\ {x \in DOMAIN domOut.parent : domOut.parent[x] = 0 - 1} = {domOut.root}

C22_Witness ==
  /\ domOut.kind = "ok"
  /\ evalPage.n = 3
  /\ Len(domOut.children[domOut.root]) = 1
  /\ evalPage.kind[domOut.children[domOut.root][1]] = "element"
  /\ Len(domOut.children[domOut.children[domOut.root][1]]) = 1

\* C23: the selector map constructDomTree returns has at most N entries;
\* its values are exactly the elements of the input that carry a highlight
\* index, and each is keyed by its own highlight index.
C23_SelectorMapExact ==
  domOut.kind = "ok" =>
    /\ Cardinality(domOut.selectorMap) <= evalPage.n
    /\ {e[2] : e \in domOut.selectorMap}
         = {x \in NodeIds(evalPage.n) :
              evalPage.kind[x] = "element" /\ evalPage.hi[x] # 0 - 1}
    /\ \A e \in domOut.selectorMap : e[1] = evalPage.hi[e[2]]
    /\ \A e, f \in domOut.selectorMap : e[1] = f[1] => e = f

C23_Witness ==
  /\ domOut.kind = "ok"
  /\ Cardinality(domOut.selectorMap) = 1
  /\ \E x, y, z \in NodeIds(evalPage.n) :
       /\ evalPage.kind[x] = "element" /\ <<evalPage.hi[x], x>> \in domOut.selectorMap
       /\ evalPage.kind[y] = "element" /\ evalPage.hi[y] = 0 - 1
       /\ evalPage.kind[z] = "text"

\* C24: the children of every element of the reconstructed tree are the
\* ids of its child-id list in the input map, in the order of that list.
C24_ChildrenInInputOrder ==
  domOut.kind = "ok" =>
    \A x \in NodeIds(evalPage.n) : domOut.children[x] = evalPage.children[x]

C24_Witness ==
  /\ domOut.kind = "ok"
  /\ domOut.root = 0
  /\ evalPage.children[0] = <<1, 2>>
  /\ domOut.children[0] = <<1, 2>>

\* C25: a call of getState whose root id is absent from the node map, or is
\* no element, ends in the throw of constructDomTree with neither tree nor
\* selector map, and the state the page has stored stays as it was.
C25_RootFailureKeepsState ==
  [][(/\ domOut' # NoDomOut
      /\ ~domOut'.blocked
      /\ \/ evalPage.rootId \notin NodeIds(evalPage.n)
         \/ evalPage.kind[evalPage.rootId] # "element")
     => /\ domOut'.kind = "throw"
        /\ domOut'.msg = "Failed to parse DOM tree"
        /\ domOut'.root = 0 - 1
        /\ domOut'.selectorMap = {}
        /\ stateSerial' = stateSerial]_vars

C25_Witness ==
  /\ stateSerial = 1
  /\ domOut.kind = "throw"
  /\ domOut.msg = "Failed to parse DOM tree"
  /\ evalPage.rootId = evalPage.n
  /\ evalPage.n >= 2

C27_Original ==
  [][(/\ ~hasProbe
      /\ csp
      /\ domOut' # NoDomOut
      /\ evalPage.rootId \in NodeIds(evalPage.n)
      /\ evalPage.kind[evalPage.rootId] = "element")
     => domOut'.kind = "ok"]_vars

\* C28: an argument list with -f followed by a path makes main load its
\* commands from that file, as --file= with the path does, and neither
\* -f nor the path is a word of an inline task.
C28_Original ==
  (/\ commands # NoCommands
   /\ \E i \in 1..(Len(argv) - 1) :
        argv[i] = Arg("", "-f") /\ argv[i + 1] = Arg("", "a.yaml"))
  => /\ commands.kind = "file"
     /\ commands.file = ParseArgsOf(<<Arg("--file=", "a.yaml")>>).file
     /\ \A j \in 1..Len(commands.inline) : commands.inline[j] \notin {"-f", "a.yaml"}

\* C29: in main, once the context is made, cleanup is called only after
\* the Enter prompt has been answered and the process exits only after
\* cleanup, whether all tasks returned or one raised; the exit code is 0
\* exactly when every task returned and 1 otherwise.
C29_CleanupAfterEnter ==
  /\ \A i \in 1..Len(mainLog) :
       /\ mainLog[i] = "enter" => \E j \in 1..(i - 1) : mainLog[j] = "prompt"
       /\ mainLog[i] = "cleanup" => \E j \in 1..(i - 1) : mainLog[j] = "enter"
       /\ mainLog[i] = "exit" => \E j \in 1..(i - 1) : mainLog[j] = "cleanup"
  /\ (mainPc = "exited") = (\E i \in 1..Len(mainLog) : mainLog[i] = "exit")
  /\ (mainPc = "exited") = (exitCode # 0 - 1)
  /\ mainPc = "exited" =>
       /\ exitCode \in {0, 1}
       /\ (exitCode = 0) =
            (/\ Len(taskLog) = nCmds
             /\ \A i \in 1..Len(taskLog) : taskLog[i] # "raised")

C29_Witness ==
  /\ mainPc = "exited"
  /\ exitCode = 1
  /\ Len(taskLog) = 2
  /\ taskLog[1] # "raised"
  /\ taskLog[2] = "raised"
  /\ nCmds = 3
  /\ Len(mainLog) = 5
  /\ mainLog[2] = "enter"
  /\ mainLog[3] = "cleanup"

\* C31: in the tree constructDomTree returns for any input map, every node
\* other than the root that is in the children of an element has that
\* element as its parent, and no node is in the children of two elements
\* or twice in the children of one.
C31_Original ==
  domOut.kind = "ok" =>
    /\ \A x \in DOMAIN domOut.children :
         \A i \in 1..Len(domOut.children[x]) :
           domOut.children[x][i] # domOut.root =>
             domOut.parent[domOut.children[x][i]] = x
    /\ \A c \in DOMAIN domOut.parent :
         Cardinality({<<x, i>> \in (DOMAIN domOut.children) \X (1..MaxRawChildren) :
                        /\ i <= Len(domOut.children[x])
                        /\ domOut.children[x][i] = c}) <= 1

\* C32: the tab id of the state CliBrowserContext.getState returns is the
\* id, in the state's list of tabs, of the tab that is selected; so the
\* message names the selected tab as 'Current tab' and lists exactly the
\* other open tabs as 'Other available tabs'.
C32_Original ==
  (tabOut.op = "getState" /\ ~tabOut.threw) =>
    /\ tabOut.tabId = currentIdx + 1
    /\ CurrentTabOf(tabOut) = currentIdx + 1
    /\ {OtherTabsOf(tabOut)[i] : i \in 1..Len(OtherTabsOf(tabOut))}
         = {i \in 1..Len(pages) : i # currentIdx + 1}

\* C33: closeTab with an id that names no open tab throws and leaves the
\* list of tabs and the current tab as they were; closeTab removes no tab
\* but the one its id names.
C33_Original ==
  [][tabOut'.op = "closeTab" =>
       /\ (tabOut'.arg <= 0 \/ tabOut'.arg > Len(pages)) =>
            /\ tabOut'.threw
            /\ pages' = pages
            /\ currentIdx' = currentIdx
       /\ \A i \in 1..Len(pages) :
            i # tabOut'.arg => \E j \in 1..Len(pages') : pages'[j] = pages[i]]_vars

\* C34: closeTab of an open tab that is not the current one leaves the
\* current page the page it was.
C34_Original ==
  [][(/\ tabOut'.op = "closeTab"
      /\ tabOut'.arg \in 1..Len(pages)
      /\ currentIdx < Len(pages)
      /\ tabOut'.arg # currentIdx + 1)
     => /\ currentIdx' < Len(pages')
        /\ pages'[currentIdx' + 1] = pages[currentIdx + 1]]_vars

\* C35: once the browser is launched, currentIdx is a position of
\* this.pages, so getCurrentPage wraps an open page.
C35_Original ==
  /\ 0 <= currentIdx
  /\ currentIdx < Len(pages)
  /\ (tabOut.op = "getCurrentPage" => tabOut.page # 0 /\ IsOpen(tabOut.page))

\* C36: with structured output disabled by option, withStructuredOutput is
\* false on the planner while its call is made and on the navigator while
\* its calls are made, so no call is in strict-schema mode.
C36_Original ==
  structuredOutput = "false" =>
    /\ pc = "planner_execute" => ~plannerWSO
    /\ pc \in {"execute", "invoke_strict", "invoke_extract"} => ~navigatorWSO
    /\ pc # "invoke_strict"

\* C37: main has at most one run in progress on its context: the run of
\* command k + 1 is started only when the runs of commands 1..k have
\* returned, and once a run has raised no further command is started.
C37_OneRunAtATime ==
  /\ Cardinality(inFlight) <= 1
  /\ \A k \in inFlight :
       /\ k = Len(taskLog) + 1
       /\ \A i \in 1..Len(taskLog) : taskLog[i] \in {"done_true", "done_false"}
  /\ \A i \in 1..Len(taskLog) :
       taskLog[i] = "raised" => (i = Len(taskLog) /\ inFlight = {} /\ mainPc # "tasks")
  /\ mainPc # "tasks" => inFlight = {}

C37_Witness ==
  /\ inFlight = {3}
  /\ Len(taskLog) = 2
  /\ mainPc = "tasks"

\* the lines of the message that are markers or scroll hints
C38_Frames(kinds) == {i \in 1..Len(msgOut) : msgOut[i].kind \in kinds}

\* C38: a listing that is not empty is framed by one top line and one
\* bottom line: the top line is '[Start of page]' exactly when pixelsAbove
\* is not greater than 0 and the pixels-above hint otherwise, the bottom
\* line is '[End of page]' exactly when pixelsBelow is not greater than 0
\* and the pixels-below hint otherwise; an empty listing gives the one
\* line 'empty page'.
C38_ScrollMarkers ==
  msgOut # <<>> =>
    IF msgIn.elements = <<>>
    THEN msgOut = <<Line("empty_page", 0)>>
    ELSE /\ Len(msgOut) = Len(msgIn.elements) + 2
         /\ SubSeq(msgOut, 2, Len(msgOut) - 1) = msgIn.elements
         /\ C38_Frames({"start_of_page", "pixels_above"}) = {1}
         /\ C38_Frames({"end_of_page", "pixels_below"}) = {Len(msgOut)}
         /\ C38_Frames({"empty_page"}) = {}
         /\ (msgOut[1].kind = "start_of_page")
              = ~(msgIn.pixelsAbove.def /\ msgIn.pixelsAbove.val > 0)
         /\ (msgOut[Len(msgOut)].kind = "end_of_page")
              = ~(msgIn.pixelsBelow.def /\ msgIn.pixelsBelow.val > 0)
         /\ msgOut[1].kind = "pixels_above" => msgOut[1].n = msgIn.pixelsAbove.val
         /\ msgOut[Len(msgOut)].kind = "pixels_below"
              => msgOut[Len(msgOut)].n = msgIn.pixelsBelow.val

C38_Witness ==
  /\ Len(msgOut) = 4
  /\ msgOut[1] = Line("start_of_page", 0)
  /\ msgIn.pixelsAbove = Px(TRUE, 0)
  /\ msgOut[4] = Line("pixels_below", 2)

\* C39: however many tasks one process runs, the doMultiAction patch and
\* the invoke patch are each put on the NavigatorAgent prototype once: the
\* first run that comes to the patching code installs both, a later run
\* wraps nothing, so there is one wrapper around each method.
C39_PatchedOnce ==
  /\ multiWraps <= 1
  /\ invokeWraps <= 1
  /\ cliPatched = (multiWraps = 1)
  /\ cliInvokePatched = (invokeWraps = 1)
  /\ patchChecks >= 1 => (multiWraps = 1 /\ invokeWraps = 1)

C39_Witness ==
  /\ patchChecks = 3
  /\ multiWraps = 1
  /\ invokeWraps = 1
  /\ runAt = "navigating"

\* what every state of the connection test satisfies
C40_Safety ==
  \A r \in 1..Len(conn) :
    /\ conn[r].reports <= 1
    /\ conn[r].finished = (conn[r].reports = 1)
    /\ conn[r].finished => (conn[r].first # "none" /\ conn[r].result = conn[r].first)
    /\ (r = Len(conn) /\ conn[r].finished) => (~testing /\ testResult = conn[r].result)
    /\ (r = Len(conn) /\ ~conn[r].finished) => (testing /\ testResult = "null")

\* C40: every run of testConnection reports one result, that of the first
\* of invalid URL, open, error, close, timeout and constructor exception;
\* what happens later in the run leaves testResult as it is; and every run
\* comes to clear the testing flag.
C40_OneResultPerRun ==
  /\ []C40_Safety
  /\ \A r \in 1..MaxRuns :
       (Len(conn) >= r) ~> (Len(conn) >= r /\ conn[r].finished)

C40_Witness ==
  /\ Len(conn) = 2
  /\ conn[1].result = "open"
  /\ conn[1].sock = "closed"
  /\ conn[1].timer = "cleared"
  /\ conn[1].errored
  /\ conn[2].result = "close"
  /\ conn[2].timer = "fired"
  /\ testResult = "close"

====
